---------------------------- MODULE Spec2Model ----------------------------
(***************************************************************************)
(* GAR analysis: stand classification (calculate_level), the two area      *)
(* hierarchies dict_total_area (operating area -> planning cell) and       *)
(* dict_cell_area (planning cell alone), target calculation and rank       *)
(* allocation of the regulation classes Gar8001, Gar8006, Gar4001,         *)
(* Gar4007, Gar4010, Gar8005 and Gar8012.                                  *)
(*                                                                         *)
(* Numbers.  Hectares and targets are Python floats in the source.  Here   *)
(* they are fixed-point integers, Scale units to the hectare, and Scale is *)
(* chosen so that every product and quotient the code forms on the inputs  *)
(* of the model (x * 0.33, x * 0.5, t * (a / b), ...) is exact.  Floating  *)
(* point rounding is therefore not modelled.                               *)
(*                                                                         *)
(* None.  Python's None is NoneNum for a numeric argument and the string   *)
(* "None" for a level, a rank or a gross-forested indicator.  A dictionary *)
(* (defaultdict) is a function whose DOMAIN is the set of keys created so  *)
(* far; the bec dictionary of a level, whose iteration order the ranking   *)
(* depends on, is the sequence of its entries in insertion order.          *)
(***************************************************************************)
EXTENDS Integers, Sequences, FiniteSets, TLC

VARIABLES gar, dict_total_area, dict_cell_area, dict_zero_target, lst_cells,
          ranks, row, nrows, pc, resultant

\* the stand-alone pipeline of gar_analysis_sa.py: the feature classes by
\* name, the locals of fix_slivers and of identity_gar, and the position
VARIABLES fc, passes, prev_selection, current_selection, id_layers, work_in,
          layer, attempt, sa_pc

sa_vars == <<fc, passes, prev_selection, current_selection, id_layers,
             work_in, layer, attempt, sa_pc>>

vars == <<gar, dict_total_area, dict_cell_area, dict_zero_target, lst_cells,
          ranks, row, nrows, pc, resultant, sa_vars>>

\* the stand-alone pipeline is not running
SaIdle ==
    /\ fc = <<>>
    /\ passes = 0
    /\ prev_selection = 0
    /\ current_selection = 0
    /\ id_layers = <<>>
    /\ work_in = ""
    /\ layer = 0
    /\ attempt = <<>>
    /\ sa_pc = "idle"

---------------------------------------------------------------------------
(* Bounds of the model. *)

\* number of resultant rows (calculate_level calls) of one run
MaxRows == 2

\* polygon areas of the rows, in whole hectares
AreaChoices == {1, 3}

MaxArea == CHOOSE a \in AreaChoices : \A b \in AreaChoices : b <= a

RECURSIVE Gcd(_, _)
Gcd(a, b) == IF b = 0 THEN a ELSE Gcd(b, a % b)

Lcm(a, b) == (a \div Gcd(a, b)) * b

RECURSIVE LcmUpTo(_)
LcmUpTo(n) == IF n <= 1 THEN 1 ELSE Lcm(LcmUpTo(n - 1), n)

\* fixed-point units per hectare: a multiple of 100 (percentages) and of
\* twice every cell total the bounds allow (ratios and the 50% cap)
Scale == Lcm(100, 2 * LcmUpTo(MaxRows * MaxArea))

\* x * (p / 100), exact on multiples of Scale
Percent(x, p) == (x \div 100) * p

\* t * (n / d) for hectares n and d that are whole multiples of Scale
TimesRatio(t, n, d) == (t \div (d \div Scale)) * (n \div Scale)

---------------------------------------------------------------------------
(* Python values. *)

NoneNum == -1
None == "None"

\* truth value of a number or None: None and 0 are false
Truthy(x) == x # NoneNum /\ x # 0

\* str.startswith on a string held as a sequence of characters
StartsWith(s, p) == Len(s) >= Len(p) /\ SubSeq(s, 1, Len(p)) = p

StartsWithAny(s, ps) == \E p \in ps : StartsWith(s, p)

IsSpace(c) == c = " "

NotSpace(c) == ~IsSpace(c)

\* bec.replace(' ', '')
RemoveSpaces(s) == SelectSeq(s, NotSpace)

\* outcome of a calculate_level whose classification raised
TypeError == "TypeError"
KeyError == "KeyError"

Raised(level) == level \in {TypeError, KeyError}

str_ch == "CH"
str_nh == "NH"

---------------------------------------------------------------------------
(* The data classes of gar_classes.py. *)

\* CellArea.Level.BEC(), stored with its key in the bec dictionary
NewBEC(key) == [key |-> key, hectares |-> 0, rank |-> None]

\* CellArea.Level()
NewLevel == [bec |-> <<>>, hectares |-> 0, total_hectares |-> 0,
             rank |-> None, target |-> 0]

\* CellArea()
NewCellArea == [level |-> <<>>, hectares |-> 0, target |-> 0,
                nthlb_hectares |-> 0, sic_hectares |-> 0, ch_hectares |-> 0,
                nh_hectares |-> 0, imm_hectares |-> 0, mat_hectares |-> 0]

\* TotalArea()
NewTotalArea == [pcell |-> <<>>]

\* defaultdict.__getitem__: the value of key k, the default d when k is new
Get(dict, k, d) == IF k \in DOMAIN dict THEN dict[k] ELSE d

\* defaultdict.__setitem__
Put(dict, k, v) == (k :> v) @@ dict

\* index of key b in a bec dictionary, 0 when b is not a key
BecIndex(becs, b) ==
    IF \E i \in 1..Len(becs) : becs[i].key = b
    THEN CHOOSE i \in 1..Len(becs) : becs[i].key = b
    ELSE 0

\* level.bec[b].hectares += a, creating the entry at the end when b is new
BecAdd(becs, b, a) ==
    LET i == BecIndex(becs, b)
    IN  IF i = 0
        THEN Append(becs, [NewBEC(b) EXCEPT !.hectares = a])
        ELSE [becs EXCEPT ![i].hectares = @ + a]

\* cell.level[l].bec[b].hectares += a
CellAddBec(cell, l, b, a) ==
    LET lv == Get(cell.level, l, NewLevel)
    IN  [cell EXCEPT !.level = Put(@, l, [lv EXCEPT !.bec = BecAdd(@, b, a)])]

\* cell.level[l].hectares += a
CellAddLevel(cell, l, a) ==
    LET lv == Get(cell.level, l, NewLevel)
    IN  [cell EXCEPT !.level = Put(@, l, [lv EXCEPT !.hectares = @ + a])]

\* cell.level[l].total_hectares += a
CellAddLevelTotal(cell, l, a) ==
    LET lv == Get(cell.level, l, NewLevel)
    IN  [cell EXCEPT !.level = Put(@, l, [lv EXCEPT !.total_hectares = @ + a])]

\* cell.hectares += a
CellAddHectares(cell, a) == [cell EXCEPT !.hectares = @ + a]

\* dict_cell_area[p] := f(dict_cell_area[p])
InCell(dca, p, f(_)) == Put(dca, p, f(Get(dca, p, NewCellArea)))

\* dict_total_area[o].pcell[p] := f(dict_total_area[o].pcell[p])
InOpCell(dta, o, p, f(_)) ==
    LET ta == Get(dta, o, NewTotalArea)
    IN  Put(dta, o, [ta EXCEPT !.pcell = InCell(@, p, f)])

\* lst_cells after: if pcell not in lst_cells: lst_cells.append(pcell)
CellsAppend(cells, p) ==
    IF \E i \in 1..Len(cells) : cells[i] = p THEN cells ELSE Append(cells, p)

\* dict_zero_target after: if op_area and target == 0: ...[op_area].add(pcell)
ZeroTargetAdd(dzt, o, p, target) ==
    IF o # "" /\ target = 0
    THEN Put(dzt, o, Get(dzt, o, {}) \cup {p})
    ELSE dzt

---------------------------------------------------------------------------
(* GAR 8-001, Mule Deer: gar_8001.py *)

str_imm_8001 == "Immature"
str_nthlb_sic == "NTHLB SIC"
str_sic == "SIC"

lst_level_8001 ==
    <<"NTHLB SIC", "SIC", "NTHLB Recruit 1", "Recruit 1", "NTHLB Recruit 2",
      "Recruit 2", "NTHLB Recruit 3", "Recruit 3", "NTHLB Recruit 4",
      "Recruit 4", "NTHLB Recruit 5", "Recruit 5", "NTHLB Recruit 6",
      "Recruit 6", "NTHLB Recruit 7", "Recruit 7", "NTHLB Recruit 8",
      "Recruit 8", "NTHLB Recruit 9", "Recruit 9", "NTHLB Recruit 10",
      "Recruit 10", "NTHLB Recruit 11", "Recruit 11", "NTHLB Recruit 12",
      "Recruit 12">>

\* the bec prefixes of the moderate snowpack zone other than IDFmw
ModerateBecs == {<<"I","D","F","d","k">>, <<"I","D","F","d","m">>,
                 <<"I","C","H","d","w">>, <<"M","S">>}

IDFmwBec == <<"I","D","F","m","w">>

\* the ladder with the upper end of each band left open
ShallowLadderOpen(age) ==
    IF age >= 140 THEN "SIC"
    ELSE IF 130 <= age /\ age < 139 THEN "Recruit 1"
    ELSE IF 120 <= age /\ age < 129 THEN "Recruit 2"
    ELSE IF 110 <= age /\ age < 119 THEN "Recruit 3"
    ELSE IF 100 <= age /\ age < 109 THEN "Recruit 4"
    ELSE IF 90 <= age /\ age < 99 THEN "Recruit 5"
    ELSE IF 80 <= age /\ age < 89 THEN "Recruit 6"
    ELSE IF 70 <= age /\ age < 79 THEN "Recruit 7"
    ELSE IF 60 <= age /\ age < 69 THEN "Recruit 8"
    ELSE None

\* shallow snowpack ladder, lines 107-125 (age is truthy)
ShallowLadder(age) ==
    IF age >= 140 THEN "SIC"
    ELSE IF 130 <= age /\ age <= 139 THEN "Recruit 1"
    ELSE IF 120 <= age /\ age <= 129 THEN "Recruit 2"
    ELSE IF 110 <= age /\ age <= 119 THEN "Recruit 3"
    ELSE IF 100 <= age /\ age <= 109 THEN "Recruit 4"
    ELSE IF 90 <= age /\ age <= 99 THEN "Recruit 5"
    ELSE IF 80 <= age /\ age <= 89 THEN "Recruit 6"
    ELSE IF 70 <= age /\ age <= 79 THEN "Recruit 7"
    ELSE IF 60 <= age /\ age <= 69 THEN "Recruit 8"
    ELSE None

\* IDFmw, thlb > 0, diam < 40 ladder, lines 147-163; level is the level so far
IDFmwLadder(age, level) ==
    IF 130 <= age /\ age <= 139 THEN "Recruit 1"
    ELSE IF 120 <= age /\ age <= 129 THEN "Recruit 2"
    ELSE IF 110 <= age /\ age <= 119 THEN "Recruit 3"
    ELSE IF 100 <= age /\ age <= 109 THEN "Recruit 4"
    ELSE IF 90 <= age /\ age <= 99 THEN "Recruit 5"
    ELSE IF 80 <= age /\ age <= 89 THEN "Recruit 6"
    ELSE IF 70 <= age /\ age <= 79 THEN "Recruit 7"
    ELSE IF 60 <= age /\ age <= 69 THEN "Recruit 8"
    ELSE level

\* IDFmw, thlb > 0, lines 135-163
IDFmwThlb(age, cc, diam) ==
    IF Truthy(cc) /\ cc >= 36
    THEN LET l1 == IF (age # NoneNum /\ age >= 140)
                      \/ (diam # NoneNum /\ diam >= 40 /\ age # NoneNum /\ age > 0)
                   THEN "SIC" ELSE None
         IN  IF diam # NoneNum /\ diam < 40 /\ Truthy(age)
             THEN IDFmwLadder(age, l1)
             ELSE l1
    ELSE None

\* IDFmw, thlb = 0, lines 167-187: the comparisons of lines 172-186 raise
\* TypeError on a None age
IDFmwNthlb(age, cc, pct) ==
    IF Truthy(cc) /\ Truthy(age) /\ Truthy(pct) /\ cc >= 50 /\ age >= 120 /\ pct >= 50
    THEN "NTHLB SIC"
    ELSE IF Truthy(cc) /\ cc >= 36
    THEN IF age = NoneNum THEN TypeError
         ELSE IF (36 <= cc /\ cc < 50) /\ (130 <= age /\ age <= 139) THEN "NTHLB Recruit 1"
         ELSE IF (36 <= cc /\ cc < 50) /\ (120 <= age /\ age <= 129) THEN "NTHLB Recruit 2"
         ELSE IF 110 <= age /\ age <= 119 THEN "NTHLB Recruit 3"
         ELSE IF 100 <= age /\ age <= 109 THEN "NTHLB Recruit 4"
         ELSE IF 90 <= age /\ age <= 99 THEN "NTHLB Recruit 5"
         ELSE IF 80 <= age /\ age <= 89 THEN "NTHLB Recruit 6"
         ELSE IF 70 <= age /\ age <= 79 THEN "NTHLB Recruit 7"
         ELSE IF 60 <= age /\ age <= 69 THEN "NTHLB Recruit 8"
         ELSE None
    ELSE None

\* IDFdk, IDFdm, ICHdw, MS, thlb > 0, diam < 40 ladder, lines 202-226
ModerateLadder(age, level) ==
    IF 165 <= age /\ age <= 174 THEN "Recruit 1"
    ELSE IF 155 <= age /\ age <= 164 THEN "Recruit 2"
    ELSE IF 145 <= age /\ age <= 154 THEN "Recruit 3"
    ELSE IF 135 <= age /\ age <= 144 THEN "Recruit 4"
    ELSE IF 125 <= age /\ age <= 134 THEN "Recruit 5"
    ELSE IF 115 <= age /\ age <= 124 THEN "Recruit 6"
    ELSE IF 105 <= age /\ age <= 114 THEN "Recruit 7"
    ELSE IF 95 <= age /\ age <= 104 THEN "Recruit 8"
    ELSE IF 85 <= age /\ age <= 94 THEN "Recruit 9"
    ELSE IF 75 <= age /\ age <= 84 THEN "Recruit 10"
    ELSE IF 65 <= age /\ age <= 74 THEN "Recruit 11"
    ELSE IF 55 <= age /\ age <= 64 THEN "Recruit 12"
    ELSE level

\* IDFdk, IDFdm, ICHdw, MS, thlb > 0, lines 191-226
ModerateThlb(age, diam) ==
    LET l1 == IF (age # NoneNum /\ age >= 175)
                 \/ (diam # NoneNum /\ diam >= 40 /\ age # NoneNum /\ age > 0)
              THEN "SIC" ELSE None
    IN  IF diam # NoneNum /\ diam < 40 /\ Truthy(age)
        THEN ModerateLadder(age, l1)
        ELSE l1

\* IDFdk, IDFdm, ICHdw, MS, thlb = 0, lines 228-248: pct >= 50 raises
\* TypeError on a None pct once age >= 120
ModerateNthlb(age, pct) ==
    IF Truthy(age)
    THEN IF age >= 120 /\ pct = NoneNum THEN TypeError
         ELSE IF age >= 120 /\ pct >= 50 THEN "NTHLB SIC"
         ELSE IF 115 <= age /\ age <= 119 THEN "NTHLB Recruit 6"
         ELSE IF 105 <= age /\ age <= 114 THEN "NTHLB Recruit 7"
         ELSE IF 95 <= age /\ age <= 104 THEN "NTHLB Recruit 8"
         ELSE IF 85 <= age /\ age <= 94 THEN "NTHLB Recruit 9"
         ELSE IF 75 <= age /\ age <= 84 THEN "NTHLB Recruit 10"
         ELSE IF 65 <= age /\ age <= 74 THEN "NTHLB Recruit 11"
         ELSE IF 55 <= age /\ age <= 64 THEN "NTHLB Recruit 12"
         ELSE None
    ELSE None

\* deep snowpack, cc >= 46, lines 256-266
DeepHigh(age, diam) ==
    IF Truthy(age) /\ Truthy(diam)
    THEN IF age >= 100 \/ (diam >= 40 /\ age > 0) THEN "SIC"
         ELSE IF (90 <= age /\ age <= 99) /\ diam < 40 THEN "Recruit 1"
         ELSE IF (80 <= age /\ age <= 89) /\ diam < 40 THEN "Recruit 2"
         ELSE IF (70 <= age /\ age <= 79) /\ diam < 40 THEN "Recruit 6"
         ELSE IF (60 <= age /\ age <= 79) /\ diam < 40 THEN "Recruit 8"
         ELSE None
    ELSE None

\* deep snowpack, 36 <= cc < 46, lines 268-278
DeepLow(age, diam) ==
    IF Truthy(age) /\ Truthy(diam)
    THEN IF age >= 100 \/ (diam >= 40 /\ age > 0) THEN "Recruit 3"
         ELSE IF (90 <= age /\ age <= 99) /\ diam < 40 THEN "Recruit 4"
         ELSE IF (80 <= age /\ age <= 89) /\ diam < 40 THEN "Recruit 5"
         ELSE IF (70 <= age /\ age <= 79) /\ diam < 40 THEN "Recruit 7"
         ELSE IF (60 <= age /\ age <= 69) /\ diam < 40 THEN "Recruit 9"
         ELSE None
    ELSE None

\* the zone rules of Gar8001.calculate_level, lines 99-278; bec is stripped
Zone8001(bec, age, spp, cc, slp, thlb, diam, pct) ==
    LET F == StartsWith(spp, <<"F">>)
    IN  IF StartsWithAny(bec, {<<"B","G">>, <<"P","P">>, <<"I","D","F","x","h">>}) /\ F
        THEN IF Truthy(age) THEN ShallowLadder(age) ELSE None
        ELSE IF StartsWith(bec, IDFmwBec)
        THEN IF F /\ slp # "80+"
             THEN IF thlb > 0 THEN IDFmwThlb(age, cc, diam)
                  ELSE IF thlb = 0 THEN IDFmwNthlb(age, cc, pct)
                  ELSE None
             ELSE None
        ELSE IF StartsWithAny(bec, ModerateBecs)
        THEN IF F /\ cc = NoneNum THEN TypeError
             ELSE IF F /\ cc >= 36 /\ slp # "80+"
             THEN IF thlb > 0 THEN ModerateThlb(age, diam)
                  ELSE IF thlb = 0 THEN ModerateNthlb(age, pct)
                  ELSE None
             ELSE None
        ELSE IF StartsWith(bec, <<"I","C","H">>) /\ ~StartsWith(bec, <<"I","C","H","d","w">>)
        THEN IF F
             THEN IF Truthy(cc) /\ cc >= 46 THEN DeepHigh(age, diam)
                  ELSE IF Truthy(cc) /\ 36 <= cc /\ cc < 46 THEN DeepLow(age, diam)
                  ELSE None
             ELSE None
        ELSE None

\* the level Gar8001.calculate_level assigns to record r (lines 99-282), or
\* TypeError when a comparison with None raises
Level8001(r) ==
    LET bec == RemoveSpaces(r.bec)
        thlb == IF Truthy(r.thlb) THEN r.thlb ELSE 0
        level == Zone8001(bec, r.age, r.spp, r.cc, r.slp, thlb, r.diam, r.pct)
    IN  IF Raised(level) THEN level
        ELSE IF Truthy(r.age) /\ r.age < 20
                /\ StartsWithAny(bec, ModerateBecs \cup {IDFmwBec})
        THEN str_imm_8001
        ELSE level

\* a variant of the accumulation that leaves the bec bucket alone
Accumulate8001OpNoBec(cell, level, bec, shp_area) ==
    CellAddHectares(cell, shp_area)

\* the accumulation of Gar8001.calculate_level into one CellArea of the
\* operating-area hierarchy, lines 284 and 288
Accumulate8001Op(cell, level, bec, shp_area) ==
    CellAddHectares(CellAddBec(cell, level, bec, shp_area), shp_area)

\* a variant of the accumulation that leaves the cell target alone
Accumulate8001CellNoTarget(cell, level, bec, shp_area, target) ==
    CellAddHectares(CellAddBec(cell, level, bec, shp_area), shp_area)

\* a variant of the accumulation that leaves the cell total alone
Accumulate8001CellNoTotal(cell, level, bec, shp_area, target) ==
    [CellAddBec(cell, level, bec, shp_area) EXCEPT !.target = target]

\* the same into the cell-alone hierarchy, lines 285-287
Accumulate8001Cell(cell, level, bec, shp_area, target) ==
    CellAddHectares([CellAddBec(cell, level, bec, shp_area) EXCEPT !.target = target],
                    shp_area)

\* a variant of the comparison that ranks equality Conditional-Harvest
NextRankStrict(running_total, target) ==
    IF running_total < target THEN str_nh ELSE str_ch

\* lines 352-355: the rank of an entry from the running total that includes it
NextRank(running_total, target) ==
    IF running_total <= target THEN str_nh ELSE str_ch

\* a variant of the cap that keeps the raw hectares
CapArea8001Raw(bec, bec_area, target_50) == bec_area

\* lines 338-340: the hectares an NTHLB SIC bec bucket keeps
CapArea8001(bec, bec_area, target_50) ==
    IF ~StartsWith(bec, IDFmwBec) /\ bec_area >= target_50
    THEN target_50
    ELSE bec_area

\* lines 350-363: ranking of one entry; st = [cell, running_total, rank, k]
\* is the state of the walk of one cell, k the position in the level list
RankEntry8001(st, level, i, bec_area, target) ==
    IF st.rank # str_ch
    THEN LET running_total == st.running_total + bec_area
             rank == NextRank(running_total, target)
             ranked == [st.cell EXCEPT !.level[level].bec[i].rank = rank,
                                       !.level[level].rank = rank]
             cell == IF level \notin {str_nthlb_sic, str_sic}
                     THEN IF rank = str_ch
                          THEN [ranked EXCEPT !.ch_hectares = @ + bec_area]
                          ELSE [ranked EXCEPT !.nh_hectares = @ + bec_area]
                     ELSE ranked
         IN  [st EXCEPT !.cell = cell, !.running_total = running_total,
                        !.rank = rank]
    ELSE st

\* a variant of line 364 that passes over an entry left without a rank
AddLevelHectaresRanked(st, level, i, bec_area) ==
    IF st.cell.level[level].bec[i].rank = None
    THEN st
    ELSE [st EXCEPT !.cell.level[level].hectares = @ + bec_area]

\* line 364: the level's hectares take the hectares of entry i, whatever
\* its rank
AddLevelHectares(st, level, i, bec_area) ==
    [st EXCEPT !.cell.level[level].hectares = @ + bec_area]

\* lines 336-364: the body of the bec loop for entry i of level
RankBec8001(st, level, i, target) ==
    LET entry == st.cell.level[level].bec[i]
        target_50 == target \div 2
    IN  IF level = str_nthlb_sic
        THEN LET bec_area == CapArea8001(entry.key, entry.hectares, target_50)
                 c1 == [st.cell EXCEPT !.level[level].bec[i].hectares = bec_area]
                 c2 == IF StartsWithAny(entry.key, ModerateBecs)
                       THEN [c1 EXCEPT !.nthlb_hectares = @ + bec_area]
                       ELSE c1
                 c3 == [c2 EXCEPT !.sic_hectares = @ + bec_area]
                 s4 == RankEntry8001([st EXCEPT !.cell = c3], level, i, bec_area, target)
             IN  AddLevelHectares(s4, level, i, bec_area)
        ELSE IF level = str_sic
        THEN LET bec_area == entry.hectares
                 c3 == [st.cell EXCEPT !.sic_hectares = @ + bec_area]
                 s4 == RankEntry8001([st EXCEPT !.cell = c3], level, i, bec_area, target)
             IN  AddLevelHectares(s4, level, i, bec_area)
        ELSE IF level = str_imm_8001
        THEN [st EXCEPT !.cell.imm_hectares = @ + entry.hectares]
        ELSE LET bec_area == entry.hectares
                 s4 == RankEntry8001(st, level, i, bec_area, target)
             IN  AddLevelHectares(s4, level, i, bec_area)

\* line 335: the bec loop of one level, from entry i on
RECURSIVE RankBecs8001(_, _, _, _)
RankBecs8001(st, level, i, target) ==
    IF i > Len(st.cell.level[level].bec)
    THEN st
    ELSE RankBecs8001(RankBec8001(st, level, i, target), level, i + 1, target)

\* a variant of the level loop that starts every level with a new running
\* total and no rank
RECURSIVE RankLevels8001Reset(_, _, _)
RankLevels8001Reset(st, levels, target) ==
    IF st.k > Len(levels)
    THEN st
    ELSE LET l == levels[st.k]
             created == [st EXCEPT !.cell.level = Put(@, l, Get(@, l, NewLevel)),
                                   !.running_total = 0, !.rank = ""]
             walked == RankBecs8001(created, l, 1, target)
         IN  RankLevels8001Reset([walked EXCEPT !.k = @ + 1], levels, target)

\* line 334: the level loop from position st.k of levels on; reading
\* level[l] creates it
RECURSIVE RankLevels8001(_, _, _)
RankLevels8001(st, levels, target) ==
    IF st.k > Len(levels)
    THEN st
    ELSE LET l == levels[st.k]
             created == [st EXCEPT !.cell.level = Put(@, l, Get(@, l, NewLevel))]
             walked == RankBecs8001(created, l, 1, target)
         IN  RankLevels8001([walked EXCEPT !.k = @ + 1], levels, target)

\* lines 329-364: the ranking of one cell
RankCell8001(cell) ==
    RankLevels8001([cell |-> cell, running_total |-> 0, rank |-> "", k |-> 1],
                   Append(lst_level_8001, str_imm_8001), cell.target).cell

\* Gar8001.calculate_cell_ranks: every cell of the dictionary is ranked
CalculateCellRanks8001(dca) == [p \in DOMAIN dca |-> RankCell8001(dca[p])]

\* a variant of lines 305-309 that gives every operating area the cell's
\* target as it is
OpTargets8001Unscaled(dta, dca) ==
    [o \in DOMAIN dta |->
        [dta[o] EXCEPT !.pcell =
            [p \in DOMAIN dta[o].pcell |->
                [dta[o].pcell[p] EXCEPT !.target = dca[p].target]]]]

\* lines 305-309: the operating-area targets
OpTargets8001(dta, dca) ==
    [o \in DOMAIN dta |->
        [dta[o] EXCEPT !.pcell =
            [p \in DOMAIN dta[o].pcell |->
                [dta[o].pcell[p] EXCEPT !.target =
                    TimesRatio(dca[p].target, dta[o].pcell[p].hectares,
                               dca[p].hectares)]]]]

\* Gar8001.calculate_ranks applied to the operating-area hierarchy
OpRanks8001(dta) ==
    [o \in DOMAIN dta |-> [dta[o] EXCEPT !.pcell = CalculateCellRanks8001(@)]]

---------------------------------------------------------------------------
(* GAR 8-006 (and section 7): gar_8006.py *)

str_imm_8006 == "Immature"
str_mature == "Mature Cover"

lst_level_8006 ==
    <<"Mature Cover", "Recruit 1", "Recruit 2", "Recruit 3", "Recruit 4",
      "Recruit 5", "Recruit 6", "Recruit 7", "Recruit 8", "Recruit 9",
      "Recruit 10", "Recruit 11">>

\* lines 101-127: the height and crown closure table
Table8006(height, cc) ==
    IF height >= 16
    THEN IF cc >= 56 THEN "Mature Cover"
         ELSE IF 46 <= cc /\ cc < 56 THEN "Recruit 3"
         ELSE IF 36 <= cc /\ cc < 46 THEN "Recruit 6"
         ELSE IF 26 <= cc /\ cc < 36 THEN "Recruit 9"
         ELSE None
    ELSE IF 14 <= height /\ height < 16
    THEN IF cc >= 56 THEN "Recruit 1"
         ELSE IF 46 <= cc /\ cc < 56 THEN "Recruit 4"
         ELSE IF 36 <= cc /\ cc < 46 THEN "Recruit 7"
         ELSE IF 26 <= cc /\ cc < 36 THEN "Recruit 10"
         ELSE None
    ELSE IF 12 <= height /\ height < 14
    THEN IF cc >= 56 THEN "Recruit 2"
         ELSE IF 46 <= cc /\ cc < 56 THEN "Recruit 5"
         ELSE IF 36 <= cc /\ cc < 46 THEN "Recruit 8"
         ELSE IF 26 <= cc /\ cc < 36 THEN "Recruit 11"
         ELSE None
    ELSE None

\* the level Gar8006.calculate_level assigns to record r, lines 97-131
Level8006(r) ==
    LET bec == RemoveSpaces(r.bec)
    IN  IF r.gfa = "Y" /\ Truthy(r.height) /\ Truthy(r.cc)
        THEN IF r.age # NoneNum
                /\ ((StartsWithAny(bec, {<<"I","D","F">>, <<"I","C","H">>}) /\ r.age < 25)
                    \/ (StartsWithAny(bec, {<<"M","S">>, <<"E","S","S","F">>}) /\ r.age < 35))
             THEN str_imm_8006
             ELSE Table8006(r.height, r.cc)
        ELSE None

\* the accumulation shared by Gar8006, Gar4007 and Gar8005, e.g.
\* gar_8006.py lines 136-141: the level bucket when there is a level, the
\* cell total always
AccumulateLevel(cell, level, shp_area) ==
    CellAddHectares(IF level # None THEN CellAddLevel(cell, level, shp_area) ELSE cell,
                    shp_area)

\* lines 161-162 and 165-166: the cell target of one CellArea
Target8006(cell) == [cell EXCEPT !.target = Percent(cell.hectares, 33)]

\* the same with the hectares of a Conditional-Harvest level left out of
\* ch_hectares
RankEntry8006Uncounted(st, level, level_area, target) ==
    IF st.rank # str_ch
    THEN LET running_total == st.running_total + level_area
             rank == NextRank(running_total, target)
             ranked == [st.cell EXCEPT !.level[level].rank = rank]
             cell == IF level # str_mature /\ rank = str_nh
                     THEN [ranked EXCEPT !.nh_hectares = @ + level_area]
                     ELSE ranked
         IN  [st EXCEPT !.cell = cell, !.running_total = running_total,
                        !.rank = rank]
    ELSE st

\* lines 195-207: ranking of one level with a non-zero area
RankEntry8006(st, level, level_area, target) ==
    IF st.rank # str_ch
    THEN LET running_total == st.running_total + level_area
             rank == NextRank(running_total, target)
             ranked == [st.cell EXCEPT !.level[level].rank = rank]
             cell == IF level # str_mature
                     THEN IF rank = str_ch
                          THEN [ranked EXCEPT !.ch_hectares = @ + level_area]
                          ELSE [ranked EXCEPT !.nh_hectares = @ + level_area]
                     ELSE ranked
         IN  [st EXCEPT !.cell = cell, !.running_total = running_total,
                        !.rank = rank]
    ELSE st

\* lines 190-207: the level loop from position st.k on; reading level[l]
\* creates it, a level of zero area is passed over
RECURSIVE RankLevels8006(_, _, _)
RankLevels8006(st, levels, target) ==
    IF st.k > Len(levels)
    THEN st
    ELSE LET l == levels[st.k]
             created == [st EXCEPT !.cell.level = Put(@, l, Get(@, l, NewLevel))]
             level_area == created.cell.level[l].hectares
             walked == IF level_area = 0
                       THEN created
                       ELSE RankEntry8006(created, l, level_area, target)
         IN  RankLevels8006([walked EXCEPT !.k = @ + 1], levels, target)

\* lines 186-207: the ranking of one cell
RankCell8006(cell) ==
    RankLevels8006([cell |-> cell, running_total |-> 0, rank |-> "", k |-> 1],
                   lst_level_8006, cell.target).cell

\* Gar8006.calculate_cell_ranks
CalculateCellRanks8006(dca) == [p \in DOMAIN dca |-> RankCell8006(dca[p])]

\* f applied to every CellArea of the operating-area hierarchy
OpCells(dta, f(_)) ==
    [o \in DOMAIN dta |->
        [dta[o] EXCEPT !.pcell = [p \in DOMAIN dta[o].pcell |-> f(dta[o].pcell[p])]]]

\* f applied to every CellArea of the cell-alone hierarchy
Cells(dca, f(_)) == [p \in DOMAIN dca |-> f(dca[p])]

---------------------------------------------------------------------------
(* GAR 4-001: gar_4001.py *)

str_imm_4001 == "Early Seral"
str_mule_deer == <<"M", "u", "l", "e", " ", "D", "e", "e", "r", ";", " ",
                   "I", "C", "H", "m", "w">>
str_moose == <<"M", "o", "o", "s", "e", ";", " ", "m", "o", "d", "e", "r",
               "a", "t", "e", " ", "s", "n", "o", "w">>
str_foraging == <<"F", "o", "r", "a", "g", "i", "n", "g", " ", "a", "r", "e", "a">>

lst_level_4001 == <<"Mule Deer SIC", "Moose SIC", "Forage Areas">>

\* self.dict_levels[notes], lines 49-53; KeyError for any other note
DictLevels4001(notes) ==
    IF notes = str_mule_deer THEN lst_level_4001[1]
    ELSE IF notes = str_moose THEN lst_level_4001[2]
    ELSE IF notes = str_foraging THEN lst_level_4001[3]
    ELSE KeyError

\* the level Gar4001.calculate_level assigns to record r, lines 93-114
Level4001(r) ==
    IF r.gfa = "Y"
    THEN IF Truthy(r.age) /\ r.age < 21 THEN str_imm_4001
         ELSE IF r.notes = str_mule_deer
         THEN IF Truthy(r.age) /\ Truthy(r.cc) /\ r.age >= 101 /\ r.cc >= 40
              THEN lst_level_4001[1] ELSE None
         ELSE IF r.notes = str_moose
         THEN IF Truthy(r.age) /\ Truthy(r.cc) /\ r.age >= 61 /\ r.cc >= 40
              THEN lst_level_4001[2] ELSE None
         ELSE IF r.notes = str_foraging
         THEN IF Truthy(r.age) /\ r.age >= 81 THEN lst_level_4001[3] ELSE None
         ELSE None
    ELSE None

\* lines 117-119 for a record whose note is no key of dict_levels: the
\* level bucket is written before line 121 raises KeyError
AccumulateBeforeKeyError4001(cell, level, shp_area) ==
    IF level # None THEN CellAddLevel(cell, level, shp_area) ELSE cell

\* lines 117-124 for a gross-forested record: the level bucket, the
\* total_hectares of the note's level, the cell total
Accumulate4001(cell, level, note_level, shp_area) ==
    CellAddHectares(
        CellAddLevelTotal(
            IF level # None THEN CellAddLevel(cell, level, shp_area) ELSE cell,
            note_level, shp_area),
        shp_area)

\* lines 141-149 and 153-161: the target of one level of a cell
LevelTarget4001(l, lv) ==
    IF l = lst_level_4001[1] THEN [lv EXCEPT !.target = Percent(lv.total_hectares, 40)]
    ELSE IF l = lst_level_4001[2] THEN [lv EXCEPT !.target = Percent(lv.total_hectares, 20)]
    ELSE IF l = lst_level_4001[3] THEN [lv EXCEPT !.target = Percent(lv.total_hectares, 10)]
    ELSE lv

\* lines 140-149 and 152-161: the level loop of one cell
Targets4001(cell) ==
    [cell EXCEPT !.level = [l \in DOMAIN cell.level |-> LevelTarget4001(l, cell.level[l])]]

---------------------------------------------------------------------------
(* GAR 4-007: gar_4007.py *)

str_imm_4007 == "Early Seral"

lst_level_4007 == <<"Mature Cover", "SIC">>

Deciduous4007 == {<<"A","T">>, <<"A","C","T">>, <<"E">>, <<"E","P">>,
                  <<"L","W">>, <<"W">>}

\* lines 88-116: the cell rules (age and cc are truthy)
Zone4007(pcell, age, cc, spp) ==
    LET fir == StartsWith(spp, <<"F","D">>) \/ StartsWith(spp, <<"S">>)
    IN  IF pcell = 5 \/ pcell = 7
        THEN IF age > 60 /\ cc >= 40 THEN lst_level_4007[2] ELSE None
        ELSE IF pcell = 6 \/ pcell = 8
        THEN IF 60 < age /\ age <= 100 /\ cc >= 40 THEN lst_level_4007[2]
             ELSE IF age > 100 /\ cc >= 40 /\ fir THEN lst_level_4007[1]
             ELSE None
        ELSE IF pcell = 9
        THEN IF age > 100 /\ cc >= 20 THEN lst_level_4007[1] ELSE None
        ELSE None

\* the level Gar4007.calculate_level assigns to record r in cell pcell,
\* lines 85-119
Level4007(r, pcell) ==
    IF Truthy(r.age) /\ r.age < 21 THEN str_imm_4007
    ELSE IF r.spp \notin Deciduous4007 /\ Truthy(r.age) /\ Truthy(r.cc)
    THEN Zone4007(pcell, r.age, r.cc, r.spp)
    ELSE None

\* lines 146-162 and 167-183: the target of level l of cell pcell
LevelTarget4007(pcell, l, lv, cell_area) ==
    IF pcell = 5
    THEN IF l = lst_level_4007[2] THEN [lv EXCEPT !.target = Percent(cell_area, 30)] ELSE lv
    ELSE IF pcell = 6
    THEN IF l = lst_level_4007[1] \/ l = lst_level_4007[2]
         THEN [lv EXCEPT !.target = Percent(cell_area, 10)] ELSE lv
    ELSE IF pcell = 7
    THEN IF l = lst_level_4007[2] THEN [lv EXCEPT !.target = Percent(cell_area, 20)] ELSE lv
    ELSE IF pcell = 8
    THEN IF l = lst_level_4007[1] THEN [lv EXCEPT !.target = Percent(cell_area, 20)]
         ELSE IF l = lst_level_4007[2] THEN [lv EXCEPT !.target = Percent(cell_area, 10)]
         ELSE lv
    ELSE IF pcell = 9
    THEN IF l = lst_level_4007[1] THEN [lv EXCEPT !.target = Percent(cell_area, 10)] ELSE lv
    ELSE lv

\* lines 144-162 and 165-183: the level loop of cell pcell
Targets4007(pcell, cell) ==
    [cell EXCEPT !.level =
        [l \in DOMAIN cell.level |->
            LevelTarget4007(pcell, l, cell.level[l], cell.hectares)]]

---------------------------------------------------------------------------
(* GAR 4-010: gar_4010.py *)

str_no_harv_4010 == "No Harvest Zone"
str_caribou == <<"C", "a", "r", "i", "b", "o", "u", " ", "M", "a", "n", "a",
                 "g", "e", "m", "e", "n", "t", " ", "Z", "o", "n", "e">>
str_partial == "Habitat: Partial Cut"

lst_level_4010 == <<"Habitat", "Habitat: Older">>

\* '{0} n'.format(self.str_caribou)
Caribou(n) == str_caribou \o <<" ", n>>

\* the level Gar4010.calculate_level assigns to record r, lines 86-106
Level4010(r) ==
    IF r.notes = Caribou("1") THEN str_no_harv_4010
    ELSE IF r.gfa = "Y" /\ r.slp # "80+"
    THEN IF r.notes \in {Caribou("5"), Caribou("6")}
         THEN IF Truthy(r.age) /\ r.age >= 141 THEN lst_level_4010[1] ELSE None
         ELSE IF r.notes = Caribou("7")
         THEN IF Truthy(r.age) /\ 141 <= r.age /\ r.age < 251 THEN lst_level_4010[1]
              ELSE IF Truthy(r.age) /\ r.age >= 251 THEN lst_level_4010[2]
              ELSE None
         ELSE IF r.notes = Caribou("8")
         THEN IF Truthy(r.age) /\ 141 <= r.age /\ r.age < 251 THEN lst_level_4010[1]
              ELSE IF Truthy(r.age) /\ r.age >= 251 THEN lst_level_4010[2]
              ELSE IF Truthy(r.age) /\ 121 <= r.age /\ r.age < 141 THEN str_partial
              ELSE None
         ELSE None
    ELSE None

\* lines 108-117: the level bucket and mat_hectares when there is a level,
\* the cell total always
Accumulate4010(cell, level, shp_area) ==
    LET c1 == IF level # None THEN CellAddLevel(cell, level, shp_area) ELSE cell
        c2 == IF level \in {lst_level_4010[1], lst_level_4010[2]}
              THEN [c1 EXCEPT !.mat_hectares = @ + shp_area]
              ELSE c1
    IN  CellAddHectares(c2, shp_area)

\* lines 135-144 and 147-156: the targets of cell pcell
Targets4010(pcell, cell) ==
    LET cell_area == cell.hectares
        c1 == IF pcell \in {Caribou("5"), Caribou("6")}
              THEN [cell EXCEPT !.target = Percent(cell_area, 70)]
              ELSE IF pcell = Caribou("7")
              THEN [cell EXCEPT !.target = Percent(cell_area, 40)]
              ELSE IF pcell = Caribou("8")
              THEN [cell EXCEPT !.target = Percent(cell_area, 30)]
              ELSE cell
    IN  [c1 EXCEPT !.level =
            [l \in DOMAIN c1.level |->
                IF l = lst_level_4010[2]
                THEN [c1.level[l] EXCEPT !.target = Percent(cell_area, 10)]
                ELSE c1.level[l]]]

---------------------------------------------------------------------------
(* GAR 8-005: gar_8005.py *)

str_imm_8005 == "Early Seral"

\* the level Gar8005.calculate_level assigns to record r, lines 81-84
Level8005(r) == IF Truthy(r.age) /\ r.age < 33 THEN str_imm_8005 ELSE None

---------------------------------------------------------------------------
(* GAR 8-012: gar_8012.py *)

str_suitable == "Suitable Cover"
str_no_harv_8012 == "No Harvest"

ESSF == <<"E", "S", "S", "F">>
ICH == <<"I", "C", "H">>

\* the level Gar8012.calculate_level assigns to record r, lines 82-87
Level8012(r) ==
    LET bec == RemoveSpaces(r.bec)
    IN  IF StartsWith(bec, <<"E","S","S","F","w","c","p">>) THEN str_no_harv_8012
        ELSE IF Truthy(r.age) /\ StartsWithAny(bec, {ESSF, ICH}) /\ r.age >= 141
        THEN str_suitable
        ELSE None

\* lines 89-95: the level bucket of a level other than No Harvest; the cell
\* total of an ESSF or ICH record that is not No Harvest
Accumulate8012(cell, level, bec, shp_area) ==
    LET c1 == IF level # None /\ level # str_no_harv_8012
              THEN CellAddLevel(cell, level, shp_area)
              ELSE cell
    IN  IF level # str_no_harv_8012 /\ StartsWithAny(bec, {ESSF, ICH})
        THEN CellAddHectares(c1, shp_area)
        ELSE c1

\* lines 115-116 and 119-120: the cell target of one CellArea
Target8012(cell) == [cell EXCEPT !.target = Percent(cell.hectares, 70)]

---------------------------------------------------------------------------
(* GARAnalysis.calculate_values: the rows of the resultant. *)

Digits == {"0", "1", "2", "3", "4", "5", "6", "7", "8", "9"}

DigitValue(c) ==
    CASE c = "0" -> 0 [] c = "1" -> 1 [] c = "2" -> 2 [] c = "3" -> 3
      [] c = "4" -> 4 [] c = "5" -> 5 [] c = "6" -> 6 [] c = "7" -> 7
      [] c = "8" -> 8 [] c = "9" -> 9

\* int(s) of a string of decimal digits
RECURSIVE IntOf(_)
IntOf(s) ==
    IF s = <<>> THEN 0
    ELSE 10 * IntOf(SubSeq(s, 1, Len(s) - 1)) + DigitValue(s[Len(s)])

ValueError == -2

\* gar_analysis.py lines 1161-1162: the override target of the feature notes,
\* in hectares; None without a digit or an '='; ValueError when the text
\* after '= ' is not a number
ParseTarget(notes) ==
    IF (\E i \in 1..Len(notes) : notes[i] \in Digits)
       /\ (\E i \in 1..Len(notes) : notes[i] = "=")
    THEN LET eq == CHOOSE i \in 1..Len(notes) :
                       notes[i] = "=" /\ \A j \in 1..(i - 1) : notes[j] # "="
             text == SubSeq(notes, eq + 2, Len(notes))
         IN  IF text # <<>> /\ \A i \in 1..Len(text) : text[i] \in Digits
             THEN IntOf(text) * Scale
             ELSE ValueError
    ELSE NoneNum

OpAreas == {"", "OA"}

\* polygon areas, in fixed point
Areas == {a * Scale : a \in AreaChoices}

\* a row's stand attributes: the arguments of calculate_level that come from
\* the inventory and the cell layer
Stand(bec, age, spp, cc, slp, thlb, diam, pct, gfa, notes, height) ==
    [bec |-> bec, age |-> age, spp |-> spp, cc |-> cc, slp |-> slp,
     thlb |-> thlb, diam |-> diam, pct |-> pct, gfa |-> gfa, notes |-> notes,
     height |-> height]

\* the row the update cursor is at: the arguments of the calculate_level
\* call and the level written back to the row
Row(stand, op_area, pcell, shp_area, target, level) ==
    [stand |-> stand, op_area |-> op_area, pcell |-> pcell,
     shp_area |-> shp_area, target |-> target, level |-> level]

NoRow == [level |-> None]

---------------------------------------------------------------------------
(* Inputs of GAR 8-001. *)

FD == <<"F", "D">>
PL == <<"P", "L">>

NotesSic0 == <<"S", "I", "C", " ", "=", " ", "0">>
NotesSic2 == <<"S", "I", "C", " ", "=", " ", "2">>

IDFdk1 == <<"I", "D", "F", "d", "k", "1">>
MSdm == <<"M", "S", " ", "d", "m">>
IDFmw2 == <<"I", "D", "F", "m", "w", "2">>

Notes8001 == {<<>>, NotesSic0, NotesSic2}

\* stands of GAR 8-001: NTHLB SIC in two capped becs and in IDFmw, SIC,
\* a recruitment level, an unclassified and an immature stand
Stands8001 ==
    {Stand(b, 125, FD, 60, None, 0, 30, 60, "Y", n, NoneNum) :
        b \in {IDFdk1, MSdm, IDFmw2}, n \in Notes8001}
    \cup {Stand(IDFdk1, a, FD, 60, None, 1, 30, 60, "Y", n, NoneNum) :
        a \in {180, 130, 10}, n \in Notes8001}
    \cup {Stand(IDFdk1, 125, PL, 60, None, 1, 30, 60, "Y", n, NoneNum) :
        n \in Notes8001}

PCells8001 == {"cell 1"}

---------------------------------------------------------------------------
(* Inputs of the other regulations. *)

ESSFwc2 == <<"E", "S", "S", "F", "w", "c", "2">>
ESSFwcp == <<"E", "S", "S", "F", "w", "c", "p">>
AT == <<"A", "T">>

\* feature notes of the regulations that take nothing but the target from them
NotesPlain == {<<>>, NotesSic0}

\* stands of GAR 8-006: Mature Cover, two recruitment levels, not gross
\* forested, immature, and a stand of age 0 without a height
Stands8006 ==
    {Stand(IDFdk1, 100, FD, cc, None, 0, 30, 60, "Y", n, h) :
        cc \in {60}, h \in {20, 15, 13}, n \in NotesPlain}
    \cup {Stand(IDFdk1, 100, FD, 60, None, 0, 30, 60, None, n, 20) : n \in NotesPlain}
    \cup {Stand(MSdm, 30, FD, 60, None, 0, 30, 60, "Y", n, 20) : n \in NotesPlain}
    \cup {Stand(IDFdk1, 0, FD, NoneNum, None, 0, NoneNum, NoneNum, "Y", n, NoneNum) :
        n \in NotesPlain}

PCells8006 == {"unit 1"}

\* stands of GAR 4-001: in and out of the gross forested land base, the
\* three habitat notes and another note, old and young
Stands4001 ==
    {Stand(IDFdk1, a, FD, 50, None, 0, 30, 60, g, n, NoneNum) :
        a \in {120, 10}, g \in {"Y", None},
        n \in {str_mule_deer, str_moose, str_foraging, NotesSic0}}

PCells4001 == {"unit 1"}

\* stands of GAR 4-007: mature fir, younger fir, early seral, deciduous
Stands4007 ==
    {Stand(IDFdk1, a, FD, 50, None, 0, 30, 60, "Y", <<>>, NoneNum) : a \in {120, 80, 10}}
    \cup {Stand(IDFdk1, 120, AT, 50, None, 0, 30, 60, "Y", NotesSic0, NoneNum)}

PCells4007 == {5, 6, 8}

\* stands of GAR 4-010: the planning cell is the feature note
Stands4010 ==
    {Stand(IDFdk1, a, FD, 50, None, 0, 30, 60, "Y", Caribou(z), NoneNum) :
        a \in {260, 150, 130}, z \in {"1", "5", "8"}}
    \cup {Stand(IDFdk1, 260, FD, 50, None, 0, 30, 60, None, Caribou("8"), NoneNum)}

\* stands of GAR 8-005
Stands8005 ==
    {Stand(IDFdk1, a, FD, 50, None, 0, 30, 60, "Y", n, NoneNum) :
        a \in {10, 50, NoneNum}, n \in NotesPlain}

PCells8005 == {"unit 1", "unit 2"}

\* stands of GAR 8-012
Stands8012 ==
    {Stand(b, a, FD, 50, None, 0, 30, 60, "Y", n, NoneNum) :
        b \in {ESSFwc2, ESSFwcp, IDFdk1}, a \in {150, 50}, n \in NotesPlain}

PCells8012 == {"unit 1"}

---------------------------------------------------------------------------
(* The run: GARAnalysis.calculate_values drives one regulation class. *)

Gars == {"u-8-001", "u-8-006", "u-4-001", "u-4-007", "u-4-010", "u-8-005",
         "u-8-012", "section-7"}

\* the analyses run with the Gar8006 class, gar_analysis.py lines 477 and 540
Gars8006 == {"u-8-006", "section-7"}

Init ==
    /\ gar \in Gars
    /\ dict_total_area = <<>>
    /\ dict_cell_area = <<>>
    /\ dict_zero_target = <<>>
    /\ lst_cells = <<>>
    /\ ranks = FALSE
    /\ row = NoRow
    /\ nrows = 0
    /\ pc = "level"
    /\ resultant = <<>>
    /\ SaIdle

\* a row whose processing raised: the exception ends the run
Raise(stand, o, p, a, target, level) ==
    /\ pc' = "raised"
    /\ row' = Row(stand, o, p, a, target, level)
    /\ nrows' = nrows + 1
    /\ UNCHANGED <<gar, dict_total_area, dict_cell_area, dict_zero_target,
                   lst_cells, ranks>>

\* what calculate_level does after the accumulation: lst_cells, the
\* zero-target registry, and the level returned to the row
Registered(stand, o, p, a, target, level) ==
    /\ lst_cells' = CellsAppend(lst_cells, p)
    /\ dict_zero_target' = ZeroTargetAdd(dict_zero_target, o, p, target)
    /\ row' = Row(stand, o, p, a, target, level)
    /\ nrows' = nrows + 1
    /\ UNCHANGED <<gar, ranks, pc>>

\* the fields of a resultant polygon that the rank update reads and writes,
\* gar_analysis.py lines 1246-1247; the rank fields are new and null
Polygon(r) ==
    [op_area |-> r.op_area, pcell |-> r.pcell, level |-> r.level,
     bec |-> RemoveSpaces(r.stand.bec), rank_oa |-> None, rank_cell |-> None]

\* u_cursor.updateRow(row), line 1217: the level returned by calculate_level
\* is written to the polygon; an exception ends the run before the update
UpdateRow ==
    resultant' = IF pc' = "raised" THEN resultant
                 ELSE Append(resultant, Polygon(row'))

\* Gar8001.calculate_level called for one row: the classification, the
\* accumulation into both hierarchies, lst_cells and the zero-target registry
Gar8001CalculateLevel(stand, o, p, a) ==
    LET target == ParseTarget(stand.notes)
        level == Level8001(stand)
        bec == RemoveSpaces(stand.bec)
        OpAcc(cell) == Accumulate8001Op(cell, level, bec, a)
        CellAcc(cell) == Accumulate8001Cell(cell, level, bec, a, target)
    IN  IF target = ValueError \/ Raised(level)
        THEN Raise(stand, o, p, a, target, level)
        ELSE /\ dict_total_area' = InOpCell(dict_total_area, o, p, OpAcc)
             /\ dict_cell_area' = InCell(dict_cell_area, p, CellAcc)
             /\ Registered(stand, o, p, a, target, level)

\* one row of the cursor loop, gar_analysis.py lines 1144-1218, with
\* Gar8001.calculate_level
CalculateLevel8001 ==
    /\ gar = "u-8-001"
    /\ pc = "level"
    /\ nrows < MaxRows
    /\ \E stand \in Stands8001, o \in OpAreas, p \in PCells8001, a \in Areas :
        Gar8001CalculateLevel(stand, o, p, a)
    /\ UpdateRow
    /\ UNCHANGED sa_vars

\* the call of Gar8006.calculate_level
Gar8006CalculateLevel(stand, o, p, a) ==
    LET target == ParseTarget(stand.notes)
        level == Level8006(stand)
        Acc(cell) == AccumulateLevel(cell, level, a)
    IN  IF target = ValueError
        THEN Raise(stand, o, p, a, target, level)
        ELSE /\ dict_total_area' = InOpCell(dict_total_area, o, p, Acc)
             /\ dict_cell_area' = InCell(dict_cell_area, p, Acc)
             /\ Registered(stand, o, p, a, target, level)

\* one row of the cursor loop, gar_analysis.py lines 1144-1218, with
\* Gar8006.calculate_level
CalculateLevel8006 ==
    /\ gar \in Gars8006
    /\ pc = "level"
    /\ nrows < MaxRows
    /\ \E stand \in Stands8006, o \in OpAreas, p \in PCells8006, a \in Areas :
        Gar8006CalculateLevel(stand, o, p, a)
    /\ UpdateRow
    /\ UNCHANGED sa_vars

\* the call of Gar4001.calculate_level: a record outside the gross
\* forested land base changes nothing; an unknown note raises KeyError at
\* line 121, after the level bucket was written and the operating-area
\* cell created
Gar4001CalculateLevel(stand, o, p, a) ==
    LET target == ParseTarget(stand.notes)
        level == Level4001(stand)
        note_level == DictLevels4001(stand.notes)
        Acc(cell) == Accumulate4001(cell, level, note_level, a)
        Before(cell) == AccumulateBeforeKeyError4001(cell, level, a)
    IN  IF target = ValueError
        THEN Raise(stand, o, p, a, target, level)
        ELSE IF stand.gfa # "Y"
        THEN /\ row' = Row(stand, o, p, a, target, level)
             /\ nrows' = nrows + 1
             /\ UNCHANGED <<gar, dict_total_area, dict_cell_area,
                            dict_zero_target, lst_cells, ranks, pc>>
        ELSE IF Raised(note_level)
        THEN /\ dict_total_area' = InOpCell(dict_total_area, o, p, Before)
             /\ dict_cell_area' = IF level # None
                                  THEN InCell(dict_cell_area, p, Before)
                                  ELSE dict_cell_area
             /\ pc' = "raised"
             /\ row' = Row(stand, o, p, a, target, note_level)
             /\ nrows' = nrows + 1
             /\ UNCHANGED <<gar, dict_zero_target, lst_cells, ranks>>
        ELSE /\ dict_total_area' = InOpCell(dict_total_area, o, p, Acc)
             /\ dict_cell_area' = InCell(dict_cell_area, p, Acc)
             /\ Registered(stand, o, p, a, target, level)

\* one row of the cursor loop, gar_analysis.py lines 1144-1218, with
\* Gar4001.calculate_level
CalculateLevel4001 ==
    /\ gar = "u-4-001"
    /\ pc = "level"
    /\ nrows < MaxRows
    /\ \E stand \in Stands4001, o \in OpAreas, p \in PCells4001, a \in Areas :
        Gar4001CalculateLevel(stand, o, p, a)
    /\ UpdateRow
    /\ UNCHANGED sa_vars

\* the call of Gar4007.calculate_level
Gar4007CalculateLevel(stand, o, p, a) ==
    LET target == ParseTarget(stand.notes)
        level == Level4007(stand, p)
        Acc(cell) == AccumulateLevel(cell, level, a)
    IN  IF target = ValueError
        THEN Raise(stand, o, p, a, target, level)
        ELSE /\ dict_total_area' = InOpCell(dict_total_area, o, p, Acc)
             /\ dict_cell_area' = InCell(dict_cell_area, p, Acc)
             /\ Registered(stand, o, p, a, target, level)

\* one row of the cursor loop, gar_analysis.py lines 1144-1218, with
\* Gar4007.calculate_level
CalculateLevel4007 ==
    /\ gar = "u-4-007"
    /\ pc = "level"
    /\ nrows < MaxRows
    /\ \E stand \in Stands4007, o \in OpAreas, p \in PCells4007, a \in Areas :
        Gar4007CalculateLevel(stand, o, p, a)
    /\ UpdateRow
    /\ UNCHANGED sa_vars

\* the call of Gar4010.calculate_level, which keys the hierarchies by the
\* feature notes: the cell field of this regulation is FEATURE_NOTES
Gar4010CalculateLevel(stand, o, a) ==
    LET target == ParseTarget(stand.notes)
        level == Level4010(stand)
        p == stand.notes
        Acc(cell) == Accumulate4010(cell, level, a)
    IN  IF target = ValueError
        THEN Raise(stand, o, p, a, target, level)
        ELSE /\ dict_total_area' = InOpCell(dict_total_area, o, p, Acc)
             /\ dict_cell_area' = InCell(dict_cell_area, p, Acc)
             /\ Registered(stand, o, p, a, target, level)

\* one row of the cursor loop, gar_analysis.py lines 1144-1218, with
\* Gar4010.calculate_level
CalculateLevel4010 ==
    /\ gar = "u-4-010"
    /\ pc = "level"
    /\ nrows < MaxRows
    /\ \E stand \in Stands4010, o \in OpAreas, a \in Areas :
        Gar4010CalculateLevel(stand, o, a)
    /\ UpdateRow
    /\ UNCHANGED sa_vars

\* the call of Gar8005.calculate_level
Gar8005CalculateLevel(stand, o, p, a) ==
    LET target == ParseTarget(stand.notes)
        level == Level8005(stand)
        Acc(cell) == AccumulateLevel(cell, level, a)
    IN  IF target = ValueError
        THEN Raise(stand, o, p, a, target, level)
        ELSE /\ dict_total_area' = InOpCell(dict_total_area, o, p, Acc)
             /\ dict_cell_area' = InCell(dict_cell_area, p, Acc)
             /\ Registered(stand, o, p, a, target, level)

\* one row of the cursor loop, gar_analysis.py lines 1144-1218, with
\* Gar8005.calculate_level
CalculateLevel8005 ==
    /\ gar = "u-8-005"
    /\ pc = "level"
    /\ nrows < MaxRows
    /\ \E stand \in Stands8005, o \in OpAreas, p \in PCells8005, a \in Areas :
        Gar8005CalculateLevel(stand, o, p, a)
    /\ UpdateRow
    /\ UNCHANGED sa_vars

\* the call of Gar8012.calculate_level: only a record that is added to a
\* bucket or to the total creates its cell in the hierarchies
Gar8012CalculateLevel(stand, o, p, a) ==
    LET target == ParseTarget(stand.notes)
        level == Level8012(stand)
        bec == RemoveSpaces(stand.bec)
        Acc(cell) == Accumulate8012(cell, level, bec, a)
    IN  IF target = ValueError
        THEN Raise(stand, o, p, a, target, level)
        ELSE /\ IF level # str_no_harv_8012 /\ StartsWithAny(bec, {ESSF, ICH})
                THEN /\ dict_total_area' = InOpCell(dict_total_area, o, p, Acc)
                     /\ dict_cell_area' = InCell(dict_cell_area, p, Acc)
                ELSE UNCHANGED <<dict_total_area, dict_cell_area>>
             /\ Registered(stand, o, p, a, target, level)

\* one row of the cursor loop, gar_analysis.py lines 1144-1218, with
\* Gar8012.calculate_level
CalculateLevel8012 ==
    /\ gar = "u-8-012"
    /\ pc = "level"
    /\ nrows < MaxRows
    /\ \E stand \in Stands8012, o \in OpAreas, p \in PCells8012, a \in Areas :
        Gar8012CalculateLevel(stand, o, p, a)
    /\ UpdateRow
    /\ UNCHANGED sa_vars

\* Gar8001.calculate_targets, lines 305-310, with the calculate_ranks it
\* calls; a cell target of None raises TypeError at line 308
CalculateTargets8001 ==
    /\ gar = "u-8-001"
    /\ pc = "level"
    /\ IF \E p \in DOMAIN dict_cell_area : dict_cell_area[p].target = NoneNum
       THEN /\ pc' = "raised"
            /\ UNCHANGED <<dict_total_area, dict_cell_area, ranks>>
       ELSE /\ dict_total_area' =
                    OpRanks8001(OpTargets8001(dict_total_area, dict_cell_area))
            /\ dict_cell_area' = CalculateCellRanks8001(dict_cell_area)
            /\ ranks' = TRUE
            /\ pc' = "done"
    /\ UNCHANGED <<gar, dict_zero_target, lst_cells, row, nrows,
                   resultant, sa_vars>>

\* Gar8006.calculate_targets, lines 159-167, with the calculate_ranks it calls
CalculateTargets8006 ==
    /\ gar \in Gars8006
    /\ pc = "level"
    /\ dict_total_area' = OpCells(OpCells(dict_total_area, Target8006), RankCell8006)
    /\ dict_cell_area' = CalculateCellRanks8006(Cells(dict_cell_area, Target8006))
    /\ ranks' = TRUE
    /\ pc' = "done"
    /\ UNCHANGED <<gar, dict_zero_target, lst_cells, row, nrows,
                   resultant, sa_vars>>

\* Gar4001.calculate_targets, lines 138-161
CalculateTargets4001 ==
    /\ gar = "u-4-001"
    /\ pc = "level"
    /\ dict_total_area' = OpCells(dict_total_area, Targets4001)
    /\ dict_cell_area' = Cells(dict_cell_area, Targets4001)
    /\ pc' = "done"
    /\ UNCHANGED <<gar, dict_zero_target, lst_cells, ranks, row, nrows,
                   resultant, sa_vars>>

\* Gar4007.calculate_targets, lines 142-183
CalculateTargets4007 ==
    /\ gar = "u-4-007"
    /\ pc = "level"
    /\ dict_total_area' =
            [o \in DOMAIN dict_total_area |->
                [dict_total_area[o] EXCEPT !.pcell =
                    [p \in DOMAIN dict_total_area[o].pcell |->
                        Targets4007(p, dict_total_area[o].pcell[p])]]]
    /\ dict_cell_area' =
            [p \in DOMAIN dict_cell_area |-> Targets4007(p, dict_cell_area[p])]
    /\ pc' = "done"
    /\ UNCHANGED <<gar, dict_zero_target, lst_cells, ranks, row, nrows,
                   resultant, sa_vars>>

\* Gar4010.calculate_targets, lines 133-156
CalculateTargets4010 ==
    /\ gar = "u-4-010"
    /\ pc = "level"
    /\ dict_total_area' =
            [o \in DOMAIN dict_total_area |->
                [dict_total_area[o] EXCEPT !.pcell =
                    [p \in DOMAIN dict_total_area[o].pcell |->
                        Targets4010(p, dict_total_area[o].pcell[p])]]]
    /\ dict_cell_area' =
            [p \in DOMAIN dict_cell_area |-> Targets4010(p, dict_cell_area[p])]
    /\ pc' = "done"
    /\ UNCHANGED <<gar, dict_zero_target, lst_cells, ranks, row, nrows,
                   resultant, sa_vars>>

\* Gar8005.calculate_targets, lines 100-107: nothing to calculate
CalculateTargets8005 ==
    /\ gar = "u-8-005"
    /\ pc = "level"
    /\ pc' = "done"
    /\ UNCHANGED <<gar, dict_total_area, dict_cell_area, dict_zero_target,
                   lst_cells, ranks, row, nrows,
                   resultant, sa_vars>>

\* Gar8012.calculate_targets, lines 113-120
CalculateTargets8012 ==
    /\ gar = "u-8-012"
    /\ pc = "level"
    /\ dict_total_area' = OpCells(dict_total_area, Target8012)
    /\ dict_cell_area' = Cells(dict_cell_area, Target8012)
    /\ pc' = "done"
    /\ UNCHANGED <<gar, dict_zero_target, lst_cells, ranks, row, nrows,
                   resultant, sa_vars>>

\* str(None), the level read back from an unclassified polygon, line 1251
StrNone == "'None'"

\* str(row[fld_level])
Str(level) == IF level = None THEN StrNone ELSE level

\* the rank lines 1254-1259 read from one CellArea for a polygon: the rank
\* of the level for 'u-8-006', the rank of the bec entry of the level for
\* every other analysis
ReadRank(cell, level, bec) ==
    LET lv == Get(cell.level, level, NewLevel)
        i == BecIndex(lv.bec, bec)
    IN  IF gar = "u-8-006" THEN lv.rank
        ELSE IF i = 0 THEN None ELSE lv.bec[i].rank

\* the CellArea after the read: the defaultdicts create what was missing
AfterRead(cell, level, bec) ==
    IF gar = "u-8-006" THEN CellAddLevel(cell, level, 0)
    ELSE CellAddBec(cell, level, bec, 0)

\* lines 1248-1261: the update cursor over the resultant from row k on
RECURSIVE UpdateRows(_, _)
UpdateRows(st, k) ==
    IF k > Len(st.rows) THEN st
    ELSE LET r == st.rows[k]
             level == Str(r.level)
             Read(cell) == AfterRead(cell, level, r.bec)
             oa_rank ==
                ReadRank(Get(Get(st.dta, r.op_area, NewTotalArea).pcell, r.pcell,
                             NewCellArea), level, r.bec)
             cell_rank == ReadRank(Get(st.dca, r.pcell, NewCellArea), level, r.bec)
         IN  UpdateRows(
                [dta |-> InOpCell(st.dta, r.op_area, r.pcell, Read),
                 dca |-> InCell(st.dca, r.pcell, Read),
                 rows |-> [st.rows EXCEPT ![k].rank_oa = oa_rank,
                                          ![k].rank_cell = cell_rank]],
                k + 1)

\* the copy of the ranks started while the rows are still being read
UpdateRanksEarly ==
    /\ pc \in {"level", "done"}
    /\ nrows > 0
    /\ LET st == UpdateRows([dta |-> dict_total_area, dca |-> dict_cell_area,
                             rows |-> resultant], 1)
       IN  /\ dict_total_area' = st.dta
           /\ dict_cell_area' = st.dca
           /\ resultant' = st.rows
    /\ pc' = "updated"
    /\ UNCHANGED <<gar, dict_zero_target, lst_cells, ranks, row, nrows, sa_vars>>

\* calculate_values, lines 1243-1261: when ranks were calculated they are
\* copied to the polygons of the resultant
UpdateRanks ==
    /\ pc = "done"
    /\ ranks
    /\ LET st == UpdateRows([dta |-> dict_total_area, dca |-> dict_cell_area,
                             rows |-> resultant], 1)
       IN  /\ dict_total_area' = st.dta
           /\ dict_cell_area' = st.dca
           /\ resultant' = st.rows
    /\ pc' = "updated"
    /\ UNCHANGED <<gar, dict_zero_target, lst_cells, ranks, row, nrows, sa_vars>>

Next ==
    \/ CalculateLevel8001
    \/ CalculateLevel8006
    \/ CalculateLevel4001
    \/ CalculateLevel4007
    \/ CalculateLevel4010
    \/ CalculateLevel8005
    \/ CalculateLevel8012
    \/ CalculateTargets8001
    \/ CalculateTargets8006
    \/ CalculateTargets4001
    \/ CalculateTargets4007
    \/ CalculateTargets4010
    \/ CalculateTargets8005
    \/ CalculateTargets8012
    \/ UpdateRanks

Spec == Init /\ [][Next]_vars

---------------------------------------------------------------------------
(* Views of the two hierarchies used by the properties. *)

\* every CellArea of the operating-area hierarchy and of the cell-alone one
OpCellAreas ==
    UNION {{dict_total_area[o].pcell[p] : p \in DOMAIN dict_total_area[o].pcell} :
            o \in DOMAIN dict_total_area}

CellAreas == {dict_cell_area[p] : p \in DOMAIN dict_cell_area}

AllCellAreas == OpCellAreas \cup CellAreas

\* the planning cells either hierarchy holds
KnownCells ==
    DOMAIN dict_cell_area
    \cup UNION {DOMAIN dict_total_area[o].pcell : o \in DOMAIN dict_total_area}

\* the CellArea of cell p under operating area o, a new one when absent
OpCell(o, p) == Get(Get(dict_total_area, o, NewTotalArea).pcell, p, NewCellArea)

RECURSIVE SumFn(_)
SumFn(f) ==
    IF DOMAIN f = {} THEN 0
    ELSE LET x == CHOOSE y \in DOMAIN f : TRUE
         IN  f[x] + SumFn([y \in DOMAIN f \ {x} |-> f[y]])

SumOver(S, f(_)) == SumFn([x \in S |-> f(x)])

RECURSIVE SumHectares(_)
SumHectares(seq) ==
    IF seq = <<>> THEN 0 ELSE seq[1].hectares + SumHectares(Tail(seq))

LevelOf(cell, l) == Get(cell.level, l, NewLevel)

\* hectares of bec b in level l of a cell, 0 when there is no such bucket
BecHectares(cell, l, b) ==
    LET becs == LevelOf(cell, l).bec
        i == BecIndex(becs, b)
    IN  IF i = 0 THEN 0 ELSE becs[i].hectares

LevelKeys(p) ==
    DOMAIN Get(dict_cell_area, p, NewCellArea).level
    \cup UNION {DOMAIN OpCell(o, p).level : o \in DOMAIN dict_total_area}

BecKeys(p, l) ==
    {e.key : e \in {LevelOf(Get(dict_cell_area, p, NewCellArea), l).bec[i] :
                        i \in 1..Len(LevelOf(Get(dict_cell_area, p, NewCellArea), l).bec)}}
    \cup UNION {{LevelOf(OpCell(o, p), l).bec[i].key :
                    i \in 1..Len(LevelOf(OpCell(o, p), l).bec)} :
                o \in DOMAIN dict_total_area}

---------------------------------------------------------------------------
(* C1 *)

\* C1: during the classification pass, for every planning cell, the cell
\* total, every category's hectares and total_hectares, and every bec
\* bucket's hectares of dict_total_area, summed over the operating areas,
\* equal those of dict_cell_area.
C1_HierarchiesAgree ==
    pc \notin {"done", "updated"} =>
        \A p \in KnownCells :
            LET c == Get(dict_cell_area, p, NewCellArea)
                OpTotal(o) == OpCell(o, p).hectares
            IN  /\ SumOver(DOMAIN dict_total_area, OpTotal) = c.hectares
                /\ \A l \in LevelKeys(p) :
                    LET OpLevel(o) == LevelOf(OpCell(o, p), l).hectares
                        OpLevelTotal(o) == LevelOf(OpCell(o, p), l).total_hectares
                    IN  /\ SumOver(DOMAIN dict_total_area, OpLevel) = LevelOf(c, l).hectares
                        /\ SumOver(DOMAIN dict_total_area, OpLevelTotal)
                                = LevelOf(c, l).total_hectares
                        /\ \A b \in BecKeys(p, l) :
                            LET OpBec(o) == BecHectares(OpCell(o, p), l, b)
                            IN  SumOver(DOMAIN dict_total_area, OpBec)
                                    = BecHectares(c, l, b)

\* two operating areas share a cell and a (category, bec) bucket of GAR 8-001
C1_Witness ==
    /\ gar = "u-8-001"
    /\ pc = "level"
    /\ \E p \in KnownCells : \E l \in LevelKeys(p) : \E b \in BecKeys(p, l) :
        /\ l # None
        /\ \A o \in OpAreas : BecHectares(OpCell(o, p), l, b) > 0
        /\ BecHectares(dict_cell_area[p], l, b)
                > BecHectares(OpCell("", p), l, b)

---------------------------------------------------------------------------
(* The cells of both hierarchies by name, and the walk of a cell. *)

\* <<"cell", p>> names cell p of dict_cell_area, <<"op", o, p>> cell p
\* under operating area o of dict_total_area
CellIds(dta, dca) ==
    {<<"cell", p>> : p \in DOMAIN dca}
    \cup UNION {{<<"op", o, p>> : p \in DOMAIN dta[o].pcell} : o \in DOMAIN dta}

CellAt(dta, dca, id) ==
    IF id[1] = "cell"
    THEN Get(dca, id[2], NewCellArea)
    ELSE Get(Get(dta, id[2], NewTotalArea).pcell, id[3], NewCellArea)

\* the hectares of all buckets of a cell, the unclassified one included
BucketSum(cell) ==
    LET LevelSum(l) == SumHectares(cell.level[l].bec)
    IN  SumOver(DOMAIN cell.level, LevelSum)

\* the entries calculate_cell_ranks of GAR 8-001 walks, in the order of the
\* walk: the bec buckets of the levels of lst_level from position k on
RECURSIVE EntriesFrom8001(_, _)
EntriesFrom8001(cell, k) ==
    IF k > Len(lst_level_8001)
    THEN <<>>
    ELSE LET l == lst_level_8001[k]
             becs == LevelOf(cell, l).bec
         IN  [i \in 1..Len(becs) |->
                [level |-> l, key |-> becs[i].key,
                 hectares |-> becs[i].hectares, rank |-> becs[i].rank]]
             \o EntriesFrom8001(cell, k + 1)

\* those of GAR 8-006: the levels of lst_level with a non-zero area
Entries8006(cell) ==
    LET All == [k \in 1..Len(lst_level_8006) |->
                    [level |-> lst_level_8006[k], key |-> <<>>,
                     hectares |-> LevelOf(cell, lst_level_8006[k]).hectares,
                     rank |-> LevelOf(cell, lst_level_8006[k]).rank]]
        Visited(e) == e.hectares # 0
    IN  SelectSeq(All, Visited)

Entries(cell) ==
    IF gar = "u-8-001" THEN EntriesFrom8001(cell, 1) ELSE Entries8006(cell)

\* the running total of the walk after entry i, when no entry before was
\* Conditional-Harvest
Prefix(E, i) == SumHectares(SubSeq(E, 1, i))

Ranked == pc = "done" /\ gar \in {"u-8-001", "u-8-006"}

Capped(e, raw, target) ==
    /\ e.level = str_nthlb_sic
    /\ ~StartsWith(e.key, IDFmwBec)
    /\ 2 * raw > target

---------------------------------------------------------------------------
(* C2 *)

\* C2 as stated: in GAR 8-001, in every state of a run, for every cell of
\* either hierarchy the hectares of the unclassified bucket plus those of
\* all classified (category, bec) buckets equal the cell's total hectares.
C2_BucketsEqualTotalAlways ==
    gar = "u-8-001" => \A cell \in AllCellAreas : BucketSum(cell) = cell.hectares

\* C2 amended: in GAR 8-001 the buckets of a cell sum to the cell's total
\* hectares in every state of the classification pass; after
\* calculate_ranks the sum is at most the total, and it is less only in a
\* cell where an NTHLB SIC bucket outside IDFmw holds exactly half the
\* target, the buckets of every other category summing to what they did.
C2_BucketsWithinTotal ==
    gar = "u-8-001" =>
        \A cell \in AllCellAreas :
            /\ pc \notin {"done", "updated"} => BucketSum(cell) = cell.hectares
            /\ pc \in {"done", "updated"} =>
                /\ BucketSum(cell) <= cell.hectares
                /\ BucketSum(cell) < cell.hectares =>
                    \E i \in 1..Len(LevelOf(cell, str_nthlb_sic).bec) :
                        LET e == LevelOf(cell, str_nthlb_sic).bec[i]
                        IN  /\ ~StartsWith(e.key, IDFmwBec)
                            /\ 2 * e.hectares = cell.target

\* a ranked cell whose buckets sum to less than its total, next to an
\* unclassified bucket
C2_Witness ==
    /\ gar = "u-8-001"
    /\ pc = "done"
    /\ \E cell \in AllCellAreas :
        /\ BucketSum(cell) < cell.hectares
        /\ cell.target > 0
        /\ None \in DOMAIN cell.level

---------------------------------------------------------------------------
(* C3 *)

\* C3: in every regulation module, a calculate_level call with polygon
\* area a adds exactly a to the total hectares of the record's cell in
\* both hierarchies, whatever the record's attributes.
C3_TotalAlwaysAdded ==
    [][(pc = "level" /\ pc' = "level" /\ nrows' = nrows + 1) =>
        /\ CellAt(dict_total_area', dict_cell_area', <<"cell", row'.pcell>>).hectares
            = CellAt(dict_total_area, dict_cell_area, <<"cell", row'.pcell>>).hectares
              + row'.shp_area
        /\ CellAt(dict_total_area', dict_cell_area',
                  <<"op", row'.op_area, row'.pcell>>).hectares
            = CellAt(dict_total_area, dict_cell_area,
                     <<"op", row'.op_area, row'.pcell>>).hectares
              + row'.shp_area]_vars

---------------------------------------------------------------------------
(* C4 *)

\* C4: in calculate_cell_ranks of GAR 8-001 and 8-006, an entry reached
\* while the running total is in use is ranked No-Harvest exactly when the
\* running total including it is at most the cell target, equality
\* included, and Conditional-Harvest otherwise.
C4_RankByRunningTotal ==
    Ranked =>
        \A cell \in AllCellAreas :
            LET E == Entries(cell)
            IN  \A i \in 1..Len(E) :
                    Prefix(E, i - 1) <= cell.target =>
                        E[i].rank = IF Prefix(E, i) <= cell.target
                                    THEN str_nh ELSE str_ch

\* a second entry of another category brings the running total to exactly
\* the target and is No-Harvest
C4_Witness ==
    /\ Ranked
    /\ \E cell \in AllCellAreas :
        LET E == Entries(cell)
        IN  /\ Len(E) >= 2
            /\ E[1].hectares > 0
            /\ E[2].hectares > 0
            /\ Prefix(E, 2) = cell.target
            /\ E[2].rank = str_nh
            /\ E[2].level # E[1].level

---------------------------------------------------------------------------
(* C5 *)

\* C5: in calculate_cell_ranks of GAR 8-001 an NTHLB SIC bec bucket outside
\* IDFmw whose hectares exceed half the cell target is stored as exactly
\* half the target and every other bucket keeps its hectares; sic_hectares
\* is the sum of the stored hectares of the NTHLB SIC and SIC buckets; and
\* from a capped bucket on the ranks follow the running total of the
\* stored hectares.
C5_CapStored ==
    [][(gar = "u-8-001" /\ pc = "level" /\ pc' = "done") =>
        \A id \in CellIds(dict_total_area, dict_cell_area) :
            LET pre == CellAt(dict_total_area, dict_cell_area, id)
                post == CellAt(dict_total_area', dict_cell_area', id)
                Raw == EntriesFrom8001(pre, 1)
                E == EntriesFrom8001(post, 1)
            IN  /\ Len(E) = Len(Raw)
                /\ \A i \in 1..Len(E) :
                    /\ E[i].hectares =
                        IF Capped(Raw[i], Raw[i].hectares, post.target)
                        THEN post.target \div 2
                        ELSE Raw[i].hectares
                    /\ 2 * E[i].hectares = post.target
                            \/ ~Capped(Raw[i], Raw[i].hectares, post.target)
                    /\ (/\ \E j \in 1..i : Capped(Raw[j], Raw[j].hectares, post.target)
                        /\ Prefix(E, i - 1) <= post.target)
                        => E[i].rank = IF Prefix(E, i) <= post.target
                                       THEN str_nh ELSE str_ch
                /\ post.sic_hectares =
                        SumHectares(LevelOf(post, str_nthlb_sic).bec)
                        + SumHectares(LevelOf(post, str_sic).bec)]_vars

\* a capped NTHLB SIC bucket holds half the target, the cell's buckets sum
\* to less than its total, and the next entry of the walk brings the
\* running total of stored hectares to the target and is No-Harvest
C5_Witness ==
    /\ gar = "u-8-001"
    /\ pc = "done"
    /\ \E cell \in AllCellAreas :
        LET E == EntriesFrom8001(cell, 1)
        IN  /\ cell.target > 0
            /\ Len(E) >= 2
            /\ E[1].level = str_nthlb_sic
            /\ ~StartsWith(E[1].key, IDFmwBec)
            /\ 2 * E[1].hectares = cell.target
            /\ BucketSum(cell) < cell.hectares
            /\ E[2].level = str_sic
            /\ Prefix(E, 2) = cell.target
            /\ E[2].rank = str_nh
            /\ cell.sic_hectares = cell.target

---------------------------------------------------------------------------
(* C6 *)

\* C6: after calculate_ranks in GAR 8-001, in every cell of either
\* hierarchy nthlb_hectares, the NTHLB SIC hectares of the moderate
\* snowpack zones other than IDFmw, is at most half the cell's target.
C6_NthlbWithinHalf ==
    (gar = "u-8-001" /\ pc = "done") =>
        \A cell \in AllCellAreas : 2 * cell.nthlb_hectares <= cell.target

---------------------------------------------------------------------------
(* C7 *)

\* C7: in the walk of a cell by calculate_cell_ranks (GAR 8-001 and 8-006,
\* either hierarchy), no entry after a Conditional-Harvest entry is
\* No-Harvest.
C7_ConditionalIsSticky ==
    Ranked =>
        \A cell \in AllCellAreas :
            LET E == Entries(cell)
            IN  \A i \in 1..Len(E) : \A j \in 1..Len(E) :
                    (i < j /\ E[i].rank = str_ch) => E[j].rank # str_nh

\* a Conditional-Harvest entry is followed by an entry of positive
\* hectares that alone would fit the target
C7_Witness ==
    /\ Ranked
    /\ \E cell \in AllCellAreas :
        LET E == Entries(cell)
        IN  \E i \in 1..Len(E) : \E j \in 1..Len(E) :
                /\ i < j
                /\ E[i].rank = str_ch
                /\ E[j].hectares > 0
                /\ E[j].hectares <= cell.target

---------------------------------------------------------------------------
(* C8 *)

\* C8: after calculate_ranks (GAR 8-001 and 8-006), in both hierarchies
\* every entry of a ranked category with positive hectares has the rank
\* No-Harvest or Conditional-Harvest.
C8_EveryEntryRanked ==
    Ranked =>
        \A cell \in AllCellAreas :
            LET E == Entries(cell)
            IN  \A i \in 1..Len(E) :
                    E[i].hectares > 0 => E[i].rank \in {str_nh, str_ch}

---------------------------------------------------------------------------
(* C9 *)

\* C9: in the results of GAR 8-001 and 8-006 the balance of a cell,
\* sic_hectares + nh_hectares + ch_hectares - target (the Mature Cover
\* hectares in place of sic_hectares for 8-006), is the hectares of all
\* ranked categories, as stored after the cap, minus the target.
C9_BalanceIsFullSurplus ==
    Ranked =>
        \A cell \in AllCellAreas :
            LET first == IF gar = "u-8-001"
                         THEN cell.sic_hectares
                         ELSE LevelOf(cell, str_mature).hectares
            IN  first + cell.nh_hectares + cell.ch_hectares - cell.target
                    = SumHectares(Entries(cell)) - cell.target

---------------------------------------------------------------------------
(* C10 *)

\* C10: after calculate_ranks in GAR 8-001, in every cell of either
\* hierarchy the hectares of every category of the priority list are the
\* sum of the stored hectares of its bec buckets, those visited after
\* Conditional-Harvest included.
C10_LevelTotalIsBecSum ==
    (gar = "u-8-001" /\ pc = "done") =>
        \A cell \in AllCellAreas :
            \A k \in 1..Len(lst_level_8001) :
                LevelOf(cell, lst_level_8001[k]).hectares
                    = SumHectares(LevelOf(cell, lst_level_8001[k]).bec)

\* a category whose only bucket was visited after Conditional-Harvest and
\* has no rank, and whose hectares are that bucket's
C10_Witness ==
    /\ gar = "u-8-001"
    /\ pc = "done"
    /\ \E cell \in AllCellAreas : \E k \in 1..Len(lst_level_8001) :
        LET level == LevelOf(cell, lst_level_8001[k])
        IN  /\ Len(level.bec) = 1
            /\ level.bec[1].rank = None
            /\ level.bec[1].hectares > 0
            /\ level.hectares = level.bec[1].hectares
            /\ \E e \in {Entries(cell)[i] : i \in 1..Len(Entries(cell))} :
                e.rank = str_ch

---------------------------------------------------------------------------
(* C11 *)

\* the percentage of the cell's total area the footers of GAR 4-007 give
\* for the target of level l in cell pcell, 0 where they give none
FootnotePercent4007(pcell, l) ==
    IF l = lst_level_4007[1]
    THEN IF pcell = 6 \/ pcell = 9 THEN 10 ELSE IF pcell = 8 THEN 20 ELSE 0
    ELSE IF l = lst_level_4007[2]
    THEN IF pcell = 6 \/ pcell = 8 THEN 10
         ELSE IF pcell = 7 THEN 20
         ELSE IF pcell = 5 THEN 30
         ELSE 0
    ELSE 0

\* C11: after calculate_targets, in both hierarchies and for every
\* populated cell, the target of each target-carrying category is the
\* footnoted percentage of the cell's total area (GAR 4-007: Mature Cover
\* and SIC by cell; GAR 4-010: 'Habitat: Older' 10% in cells 7 and 8),
\* whether or not a record of the cell was classified into the category.
C11_TargetIsFootnotedPercent ==
    pc = "done" =>
        \A id \in CellIds(dict_total_area, dict_cell_area) :
            LET cell == CellAt(dict_total_area, dict_cell_area, id)
                pcell == id[Len(id)]
            IN  cell.hectares > 0 =>
                    IF gar = "u-4-007"
                    THEN \A k \in 1..Len(lst_level_4007) :
                            FootnotePercent4007(pcell, lst_level_4007[k]) > 0 =>
                                LevelOf(cell, lst_level_4007[k]).target =
                                    Percent(cell.hectares,
                                            FootnotePercent4007(pcell, lst_level_4007[k]))
                    ELSE IF gar = "u-4-010"
                    THEN pcell \in {Caribou("7"), Caribou("8")} =>
                            LevelOf(cell, lst_level_4010[2]).target =
                                Percent(cell.hectares, 10)
                    ELSE TRUE

---------------------------------------------------------------------------
(* C12 *)

\* the cell target the formula of the regulation gives from the totals of
\* the cell record itself; GAR 4-001, 4-007 and 8-005 set no cell target
OwnCellTarget(pcell, cell) ==
    IF gar \in Gars8006 THEN Percent(cell.hectares, 33)
    ELSE IF gar = "u-8-012" THEN Percent(cell.hectares, 70)
    ELSE IF gar = "u-4-010"
    THEN IF pcell \in {Caribou("5"), Caribou("6")} THEN Percent(cell.hectares, 70)
         ELSE IF pcell = Caribou("7") THEN Percent(cell.hectares, 40)
         ELSE IF pcell = Caribou("8") THEN Percent(cell.hectares, 30)
         ELSE 0
    ELSE 0

\* the same for the target of a level the cell record holds
OwnLevelTarget(pcell, cell, l) ==
    IF gar = "u-4-001"
    THEN IF l = "Mule Deer SIC" THEN Percent(cell.level[l].total_hectares, 40)
         ELSE IF l = "Moose SIC" THEN Percent(cell.level[l].total_hectares, 20)
         ELSE IF l = "Forage Areas" THEN Percent(cell.level[l].total_hectares, 10)
         ELSE 0
    ELSE IF gar = "u-4-007"
    THEN Percent(cell.hectares, FootnotePercent4007(pcell, l))
    ELSE IF gar = "u-4-010"
    THEN IF l = "Habitat: Older" THEN Percent(cell.hectares, 10) ELSE 0
    ELSE 0

\* the targets of the operating-area record of cell p under o are those
\* its own totals give; ByOwn8001 says what that is for GAR 8-001
OpTargetsFromOwn(o, p, ByOwn8001) ==
    LET cell == OpCell(o, p)
    IN  /\ cell.target = IF gar = "u-8-001" THEN ByOwn8001
                         ELSE OwnCellTarget(p, cell)
        /\ \A l \in DOMAIN cell.level :
                cell.level[l].target = OwnLevelTarget(p, cell, l)

\* C12 as stated: in every regulation module each operating-area target
\* after calculate_targets is the cell-alone formula applied to the
\* operating area's own totals; for GAR 8-001, whose cell-alone target is
\* the override of the feature notes, that is the override, not scaled.
C12_OpTargetFromOwnTotalsOnly ==
    pc = "done" =>
        \A o \in DOMAIN dict_total_area : \A p \in DOMAIN dict_total_area[o].pcell :
            OpTargetsFromOwn(o, p, dict_cell_area[p].target)

\* C12 amended: in every regulation module but GAR 8-001, each
\* operating-area target after calculate_targets is the cell-alone formula
\* applied to the operating area's own totals; in GAR 8-001 it is the
\* cell-alone target times the operating area's share of the cell's
\* hectares.
C12_OpTargetOwnOrProportional ==
    pc = "done" =>
        \A o \in DOMAIN dict_total_area : \A p \in DOMAIN dict_total_area[o].pcell :
            OpTargetsFromOwn(o, p,
                TimesRatio(dict_cell_area[p].target, OpCell(o, p).hectares,
                           dict_cell_area[p].hectares))

\* a GAR 8-001 cell with a positive target whose records lie in two
\* operating areas of different hectares
C12_Witness ==
    /\ gar = "u-8-001"
    /\ pc = "done"
    /\ \E p \in DOMAIN dict_cell_area :
        /\ dict_cell_area[p].target > 0
        /\ \A o \in OpAreas : OpCell(o, p).hectares > 0
        /\ OpCell("", p).hectares < OpCell("OA", p).hectares
        /\ OpCell("", p).target < OpCell("OA", p).target
        /\ OpCell("OA", p).target < dict_cell_area[p].target

---------------------------------------------------------------------------
(* C13 *)

\* C13: after calculate_targets, for every planning cell the cell target
\* and the target of every category of the operating-area records of the
\* cell, summed over the operating areas, equal those of the cell-alone
\* record.
C13_OpTargetsSumToCellTarget ==
    pc = "done" =>
        \A p \in DOMAIN dict_cell_area :
            LET c == dict_cell_area[p]
                OpTarget(o) == OpCell(o, p).target
            IN  /\ SumOver(DOMAIN dict_total_area, OpTarget) = c.target
                /\ \A l \in LevelKeys(p) :
                    LET OpLevelTarget(o) == LevelOf(OpCell(o, p), l).target
                    IN  SumOver(DOMAIN dict_total_area, OpLevelTarget)
                            = LevelOf(c, l).target

---------------------------------------------------------------------------
(* C14 *)

\* C14: after calculate_level has processed a record whose override target
\* parses to 0, the record's cell is a member of the zero-target registry
\* entry of the record's operating-area id, whatever the id (the empty one
\* included) and the record, in every regulation module.
C14_ZeroTargetRegistered ==
    [][(pc = "level" /\ pc' = "level" /\ nrows' = nrows + 1 /\ row'.target = 0) =>
        row'.pcell \in Get(dict_zero_target', row'.op_area, {})]_vars

---------------------------------------------------------------------------
(* C15 *)

\* no level of the cell has a target, and no level or bec of it a rank
LevelsUnwritten(cell) ==
    \A l \in DOMAIN cell.level :
        /\ cell.level[l].target = 0
        /\ cell.level[l].rank = None
        /\ \A i \in 1..Len(cell.level[l].bec) : cell.level[l].bec[i].rank = None

\* the ranks of the becs of a level that have one, in the order of the
\* bec dictionary
RankedBecs(level) ==
    LET HasRank(e) == e.rank # None IN SelectSeq(level.bec, HasRank)

\* C15 as stated: a step of the classification pass writes no target and
\* no rank field: after it the target of every cell, and the target and
\* rank of every level and bec, are what they were before (those of a new
\* record for a cell, level or bec the step created).
C15_NoTargetOrRankWriteInPass ==
    [][pc' \notin {"done", "updated"} =>
        \A id \in CellIds(dict_total_area', dict_cell_area') :
            LET pre == CellAt(dict_total_area, dict_cell_area, id)
                post == CellAt(dict_total_area', dict_cell_area', id)
            IN  /\ post.target = pre.target
                /\ \A l \in DOMAIN post.level :
                    /\ post.level[l].target = LevelOf(pre, l).target
                    /\ post.level[l].rank = LevelOf(pre, l).rank]_vars

\* C15 amended: during the classification pass no rank field, no level
\* target and no cell target of the operating-area hierarchy is written,
\* and outside GAR 8-001 no cell target of the cell-alone hierarchy; in
\* GAR 8-001 every calculate_level call writes the record's override
\* target to the cell-alone record of its cell, the last record winning.
\* In calculate_ranks of GAR 8-001 the rank of a category is written with
\* every ranked bec of it, so it ends as the rank of the last of them.
C15_WritesOfTargetsAndRanks ==
    [][/\ pc' \notin {"done", "updated"} =>
            \A id \in CellIds(dict_total_area', dict_cell_area') :
                LET pre == CellAt(dict_total_area, dict_cell_area, id)
                    post == CellAt(dict_total_area', dict_cell_area', id)
                IN  /\ LevelsUnwritten(post)
                    /\ post.target =
                        IF gar = "u-8-001" /\ id[1] = "cell"
                        THEN IF pc' = "level" /\ id[2] = row'.pcell
                             THEN row'.target
                             ELSE pre.target
                        ELSE 0
       /\ (pc' = "done" /\ gar = "u-8-001") =>
            \A id \in CellIds(dict_total_area', dict_cell_area') :
                LET post == CellAt(dict_total_area', dict_cell_area', id)
                IN  \A l \in DOMAIN post.level :
                        post.level[l].rank =
                            IF RankedBecs(post.level[l]) = <<>>
                            THEN None
                            ELSE RankedBecs(post.level[l])[
                                    Len(RankedBecs(post.level[l]))].rank]_vars

\* in the classification pass of GAR 8-001 the cell-alone record of the
\* row's cell holds the row's positive override target after a second
\* record, and the operating-area record of the cell holds none
C15_Witness ==
    /\ gar = "u-8-001"
    /\ pc = "level"
    /\ nrows = 2
    /\ row.target > 0
    /\ dict_cell_area[row.pcell].target = row.target
    /\ OpCell(row.op_area, row.pcell).target = 0

---------------------------------------------------------------------------
(* C16 *)

\* the category buckets of a cell record: <<level, bec>> for the bec
\* buckets of GAR 8-001, <<level>> for the level buckets of the other
\* regulations; the unclassified bucket (level None) is none of them
CategoryBuckets(cell) ==
    IF gar = "u-8-001"
    THEN UNION {{<<l, cell.level[l].bec[i].key>> : i \in 1..Len(cell.level[l].bec)} :
                    l \in DOMAIN cell.level \ {None}}
    ELSE {<<l>> : l \in DOMAIN cell.level \ {None}}

\* the hectares of bucket b of a cell record, 0 when the record has none
BucketHectares(cell, b) ==
    IF Len(b) = 2 THEN BecHectares(cell, b[1], b[2]) ELSE LevelOf(cell, b[1]).hectares

\* the buckets of a hierarchy, unclassified ones included, never lose
\* hectares in the step
BucketsNotDecreased(id) ==
    LET pre == CellAt(dict_total_area, dict_cell_area, id)
        post == CellAt(dict_total_area', dict_cell_area', id)
    IN  \A l \in DOMAIN pre.level :
            /\ LevelOf(post, l).hectares >= pre.level[l].hectares
            /\ \A i \in 1..Len(pre.level[l].bec) :
                BecHectares(post, l, pre.level[l].bec[i].key)
                    >= pre.level[l].bec[i].hectares

\* the category buckets of cell record id that grew in the step
Grown(id) ==
    LET pre == CellAt(dict_total_area, dict_cell_area, id)
        post == CellAt(dict_total_area', dict_cell_area', id)
    IN  {b \in CategoryBuckets(post) : BucketHectares(post, b) # BucketHectares(pre, b)}

\* what a calculate_level call that returned Classified(row) adds to the
\* category buckets of hierarchy h ("cell" or "op")
AddsToOneBucket(h, Classified(_)) ==
    LET mine == IF h = "cell" THEN <<"cell", row'.pcell>>
                ELSE <<"op", row'.op_area, row'.pcell>>
        pre == CellAt(dict_total_area, dict_cell_area, mine)
        post == CellAt(dict_total_area', dict_cell_area', mine)
    IN  /\ \A id \in CellIds(dict_total_area', dict_cell_area') :
            (id[1] = h /\ id # mine) => Grown(id) = {}
        /\ Cardinality(Grown(mine)) <= 1
        /\ \A b \in Grown(mine) :
            /\ b[1] = row'.level
            /\ BucketHectares(post, b) = BucketHectares(pre, b) + row'.shp_area
        /\ Classified(row') => Cardinality(Grown(mine)) = 1

IsClassified(r) == r.level # None

\* C16: each calculate_level call adds the polygon's area to at most one
\* category bucket per hierarchy, exactly one when the record is
\* classified, by exactly the polygon's area, and during the
\* classification pass no bucket's hectares decrease.
C16_OneBucketPerRecord ==
    [][pc' \notin {"done", "updated"} =>
        /\ \A id \in CellIds(dict_total_area, dict_cell_area) : BucketsNotDecreased(id)
        /\ (pc' = "level" /\ nrows' = nrows + 1) =>
            /\ AddsToOneBucket("cell", IsClassified)
            /\ AddsToOneBucket("op", IsClassified)]_vars

---------------------------------------------------------------------------
(* C17 *)

\* the hierarchies of GAR 8-001 after calculate_level has processed row r
\* on the hierarchies h = [dta, dca]
AfterRow8001(h, r) ==
    LET level == Level8001(r.stand)
        bec == RemoveSpaces(r.stand.bec)
        OpAcc(cell) == Accumulate8001Op(cell, level, bec, r.shp_area)
        CellAcc(cell) == Accumulate8001Cell(cell, level, bec, r.shp_area, r.target)
    IN  [dta |-> InOpCell(h.dta, r.op_area, r.pcell, OpAcc),
         dca |-> InCell(h.dca, r.pcell, CellAcc)]

\* the hierarchies after calculate_targets of GAR 8-001
AfterTargets8001(h) ==
    [dta |-> OpRanks8001(OpTargets8001(h.dta, h.dca)),
     dca |-> CalculateCellRanks8001(h.dca)]

\* the result held by a cell record, whatever the order of its
\* dictionaries: total, target, and hectares and rank by (category, bec)
CellResult(cell) ==
    [hectares |-> cell.hectares,
     target |-> cell.target,
     buckets |-> UNION {{<<l, cell.level[l].bec[i].key, cell.level[l].bec[i].hectares,
                           cell.level[l].bec[i].rank>> :
                                i \in 1..Len(cell.level[l].bec)} :
                            l \in DOMAIN cell.level}]

SameResult(g, h) ==
    /\ CellIds(g.dta, g.dca) = CellIds(h.dta, h.dca)
    /\ \A id \in CellIds(g.dta, g.dca) :
        CellResult(CellAt(g.dta, g.dca, id)) = CellResult(CellAt(h.dta, h.dca, id))

\* C17: for two records of GAR 8-001 with the same override target, the
\* result of the run (bucket hectares, cell totals, targets, and the rank
\* of every (category, bec) entry) is the same when the records are
\* processed in the other order.
C17_OrderIndependent ==
    [][(/\ gar = "u-8-001"
        /\ pc = "level" /\ pc' = "level"
        /\ nrows = 1 /\ nrows' = 2
        /\ row.target = row'.target
        /\ row.target # NoneNum) =>
            SameResult(
                AfterTargets8001([dta |-> dict_total_area', dca |-> dict_cell_area']),
                AfterTargets8001(
                    AfterRow8001(AfterRow8001([dta |-> <<>>, dca |-> <<>>], row'),
                                 row)))]_vars


---------------------------------------------------------------------------
(* One record through calculate_level: the record's attributes range over
   the values the inventory can hold, nulls included, and the regulation's
   calculate_level is called once for it on empty hierarchies. *)

\* the oldest stand of the age ladders
MaxAge == 150

BGxh1 == <<"B", "G", "x", "h", "1">>
PPxh1 == <<"P", "P", "x", "h", "1">>
IDFxh1 == <<"I", "D", "F", "x", "h", "1">>
ICHdw1 == <<"I", "C", "H", "d", "w", "1">>
ICHmw2 == <<"I", "C", "H", "m", "w", "2">>

\* every age of the ladders, and a null age
Ages == {NoneNum} \cup 0..MaxAge

\* ages around the thresholds of the moderate and deep snowpack rules
KeyAges == {NoneNum, 0, 10, 19, 20, 60, 125, 139, 140, 174, 175}

\* records of GAR 8-001: the shallow zone at every age, the other zones at
\* the threshold ages with every combination of the gating attributes
Records8001 ==
    {Stand(b, a, s, cc, None, 1, d, 60, "Y", <<>>, NoneNum) :
        b \in {BGxh1, PPxh1, IDFxh1}, a \in Ages, s \in {FD, PL},
        cc \in {NoneNum, 60}, d \in {NoneNum, 30}}
    \cup {Stand(b, a, s, cc, slp, thlb, d, pct, "Y", <<>>, NoneNum) :
        b \in {IDFmw2, IDFdk1, MSdm, ICHdw1, ICHmw2, ESSFwc2}, a \in KeyAges,
        s \in {FD, PL}, cc \in {NoneNum, 30, 40, 60}, slp \in {None, "80+"},
        thlb \in {0, 1}, d \in {NoneNum, 30, 45}, pct \in {NoneNum, 60}}

\* records of GAR 8-006
Records8006 ==
    {Stand(b, a, FD, cc, None, 0, 30, 60, g, <<>>, h) :
        b \in {IDFdk1, ICHmw2, MSdm, ESSFwc2, BGxh1},
        a \in {NoneNum, 0, 10, 24, 25, 34, 35, 100},
        cc \in {NoneNum, 0, 30, 60}, g \in {"Y", None}, h \in {NoneNum, 0, 13, 20}}

\* records of GAR 4-001
Records4001 ==
    {Stand(IDFdk1, a, s, cc, None, 0, 30, 60, g, n, NoneNum) :
        a \in {NoneNum, 0, 10, 20, 21, 61, 81, 101}, s \in {FD, AT},
        cc \in {NoneNum, 30, 50}, g \in {"Y", None},
        n \in {str_mule_deer, str_moose, str_foraging, <<>>}}

\* records of GAR 4-007
Records4007 ==
    {Stand(IDFdk1, a, s, cc, None, 0, 30, 60, g, <<>>, NoneNum) :
        a \in {NoneNum, 0, 10, 20, 21, 80, 120}, s \in {FD, AT},
        cc \in {NoneNum, 10, 50}, g \in {"Y", None}}

\* records of GAR 4-010
Records4010 ==
    {Stand(IDFdk1, a, FD, 50, slp, 0, 30, 60, g, Caribou(z), NoneNum) :
        a \in {NoneNum, 0, 10, 141, 251}, slp \in {None, "80+"},
        g \in {"Y", None}, z \in {"1", "5", "7", "8"}}

\* records of GAR 8-005
Records8005 ==
    {Stand(b, a, s, cc, None, 0, 30, 60, g, <<>>, NoneNum) :
        b \in {IDFdk1, ESSFwc2}, a \in {NoneNum, 0, 10, 32, 33, 50},
        s \in {FD, AT}, cc \in {NoneNum, 50}, g \in {"Y", None}}

\* records of GAR 8-012
Records8012 ==
    {Stand(b, a, FD, 50, None, 0, 30, 60, g, <<>>, NoneNum) :
        b \in {ESSFwc2, ESSFwcp, ICHmw2, IDFdk1},
        a \in {NoneNum, 0, 10, 140, 141}, g \in {"Y", None}}

\* the records of regulation g
Records(g) ==
    CASE g = "u-8-001" -> Records8001
      [] g \in Gars8006 -> Records8006
      [] g = "u-4-001" -> Records4001
      [] g = "u-4-007" -> Records4007
      [] g = "u-4-010" -> Records4010
      [] g = "u-8-005" -> Records8005
      [] g = "u-8-012" -> Records8012

\* the planning cells of regulation g
PCells(g) ==
    CASE g = "u-8-001" -> PCells8001
      [] g \in Gars8006 -> PCells8006
      [] g = "u-4-001" -> PCells4001
      [] g = "u-4-007" -> PCells4007
      [] g = "u-4-010" -> {""}
      [] g = "u-8-005" -> PCells8005
      [] g = "u-8-012" -> PCells8012

\* a freshly constructed regulation object and the record the cursor is at:
\* row holds the arguments of the coming calculate_level call
RecordInit ==
    /\ gar \in Gars
    /\ dict_total_area = <<>>
    /\ dict_cell_area = <<>>
    /\ dict_zero_target = <<>>
    /\ lst_cells = <<>>
    /\ ranks = FALSE
    /\ \E stand \in Records(gar), o \in OpAreas, p \in PCells(gar) :
        row = Row(stand, o, p, Scale, NoneNum, None)
    /\ nrows = 0
    /\ pc = "level"
    /\ resultant = <<>>
    /\ SaIdle

\* the calculate_level call of each regulation for the record at the cursor
Record8001 ==
    /\ gar = "u-8-001" /\ pc = "level" /\ nrows = 0
    /\ Gar8001CalculateLevel(row.stand, row.op_area, row.pcell, row.shp_area)
    /\ UpdateRow
    /\ UNCHANGED sa_vars

Record8006 ==
    /\ gar \in Gars8006 /\ pc = "level" /\ nrows = 0
    /\ Gar8006CalculateLevel(row.stand, row.op_area, row.pcell, row.shp_area)
    /\ UpdateRow
    /\ UNCHANGED sa_vars

Record4001 ==
    /\ gar = "u-4-001" /\ pc = "level" /\ nrows = 0
    /\ Gar4001CalculateLevel(row.stand, row.op_area, row.pcell, row.shp_area)
    /\ UpdateRow
    /\ UNCHANGED sa_vars

Record4007 ==
    /\ gar = "u-4-007" /\ pc = "level" /\ nrows = 0
    /\ Gar4007CalculateLevel(row.stand, row.op_area, row.pcell, row.shp_area)
    /\ UpdateRow
    /\ UNCHANGED sa_vars

Record4010 ==
    /\ gar = "u-4-010" /\ pc = "level" /\ nrows = 0
    /\ Gar4010CalculateLevel(row.stand, row.op_area, row.shp_area)
    /\ UpdateRow
    /\ UNCHANGED sa_vars

Record8005 ==
    /\ gar = "u-8-005" /\ pc = "level" /\ nrows = 0
    /\ Gar8005CalculateLevel(row.stand, row.op_area, row.pcell, row.shp_area)
    /\ UpdateRow
    /\ UNCHANGED sa_vars

Record8012 ==
    /\ gar = "u-8-012" /\ pc = "level" /\ nrows = 0
    /\ Gar8012CalculateLevel(row.stand, row.op_area, row.pcell, row.shp_area)
    /\ UpdateRow
    /\ UNCHANGED sa_vars

RecordNext ==
    \/ Record8001
    \/ Record8006
    \/ Record4001
    \/ Record4007
    \/ Record4010
    \/ Record8005
    \/ Record8012

RecordSpec == RecordInit /\ [][RecordNext]_vars


---------------------------------------------------------------------------
(* C18: GAR 8-001, the diameter override on a record without an age. *)

\* the record at the cursor has gone through calculate_level
Called == nrows = 1

\* the zone, species, crown closure, slope and THLB gates of the diameter
\* override rules of GAR 8-001 (IDFmw; IDFdk, IDFdm, ICHdw, MS)
DiameterGates8001(r) ==
    /\ StartsWithAny(RemoveSpaces(r.bec), ModerateBecs \cup {IDFmwBec})
    /\ StartsWith(r.spp, <<"F">>)
    /\ r.cc # NoneNum /\ r.cc >= 36
    /\ r.slp # "80+"
    /\ r.thlb # NoneNum /\ r.thlb > 0

\* C18: in GAR 8-001 a record with a null age and a diameter of at least
\* 40 cm that passes the gates of a diameter override rule is classified
\* 'SIC'
C18_NullAgeDiameterIsSic ==
    (/\ gar = "u-8-001"
     /\ Called
     /\ row.stand.age = NoneNum
     /\ row.stand.diam # NoneNum /\ row.stand.diam >= 40
     /\ DiameterGates8001(row.stand)) => row.level = str_sic


---------------------------------------------------------------------------
(* C19: GAR 8-001, the age bands of the shallow snowpack rule. *)

\* the record falls under the shallow snowpack rule
Shallow8001(r) ==
    /\ StartsWithAny(RemoveSpaces(r.bec),
                     {<<"B","G">>, <<"P","P">>, <<"I","D","F","x","h">>})
    /\ StartsWith(r.spp, <<"F">>)

\* the recruitment bands in descending age, ten years each, below 140
ShallowBands ==
    <<"Recruit 1", "Recruit 2", "Recruit 3", "Recruit 4", "Recruit 5",
      "Recruit 6", "Recruit 7", "Recruit 8">>

\* the one band an age belongs to
ShallowBand(age) ==
    IF age >= 140 THEN str_sic
    ELSE IF age >= 60 THEN ShallowBands[((139 - age) \div 10) + 1]
    ELSE None

\* C19: under the shallow snowpack rule of GAR 8-001 an integer age of 140
\* or more gives 'SIC', each ten-year band from 130-139 down to 60-69 gives
\* 'Recruit 1' to 'Recruit 8', and an age below 60 leaves the record
\* unclassified
C19_ShallowAgeBands ==
    (/\ gar = "u-8-001"
     /\ Called
     /\ Shallow8001(row.stand)
     /\ row.stand.age # NoneNum) => row.level = ShallowBand(row.stand.age)

\* age 125 came out as 'Recruit 2'
C19_Witness ==
    /\ gar = "u-8-001"
    /\ Called
    /\ Shallow8001(row.stand)
    /\ row.stand.age = 125
    /\ row.level = "Recruit 2"


---------------------------------------------------------------------------
(* C20: the immature rule of the regulations that have an immature or
   early seral category. *)

\* the regulations whose calculate_level assigns an immature category
ImmatureGars == {"u-8-001", "u-8-006", "u-4-001", "u-4-007", "u-8-005"}

\* the immature category of regulation g
Immature(g) ==
    CASE g = "u-8-001" -> str_imm_8001
      [] g = "u-8-006" -> str_imm_8006
      [] g = "u-4-001" -> str_imm_4001
      [] g = "u-4-007" -> str_imm_4007
      [] g = "u-8-005" -> str_imm_8005

\* the age below which regulation g calls record r immature; GAR 8-006
\* has one threshold for IDF and ICH and another for MS and ESSF
YouthThreshold(g, r) ==
    CASE g = "u-8-001" -> 20
      [] g = "u-8-006" ->
            IF StartsWithAny(RemoveSpaces(r.bec), {<<"M","S">>, <<"E","S","S","F">>})
            THEN 35 ELSE 25
      [] g = "u-4-001" -> 21
      [] g = "u-4-007" -> 21
      [] g = "u-8-005" -> 33

\* C20: in every regulation with an immature category, a record whose age
\* is a number below the youth threshold is classified immature, whatever
\* its bec zone, species, crown closure, height and gross-forested indicator
C20_YoungIsImmature ==
    (/\ gar \in ImmatureGars
     /\ Called
     /\ row.stand.age # NoneNum
     /\ row.stand.age < YouthThreshold(gar, row.stand)) =>
        row.level = Immature(gar)


---------------------------------------------------------------------------
(* C21: null numeric attributes. *)

\* one of the age, crown closure, diameter or leading-species percent of
\* record r is null
HasNull(r) ==
    r.age = NoneNum \/ r.cc = NoneNum \/ r.diam = NoneNum \/ r.pct = NoneNum

\* C21: calculate_level never raises on a record whose age, crown closure,
\* diameter or leading-species percent is null, in any regulation
C21_NullNeverRaises ==
    (Called /\ HasNull(row.stand)) => row.level # TypeError


---------------------------------------------------------------------------
(* C22: calculate_level and the buckets it needs. *)

\* C22: calculate_level completes without an exception for every record,
\* creating the buckets it needs, a gross-forested GAR 4-001 record with an
\* unknown feature note included
C22_LevelNeverFails ==
    Called => (pc # "raised" /\ ~Raised(row.level))


---------------------------------------------------------------------------
(* C23: GAR 8-001, calculate_targets on cells without an override target. *)

\* the step is the calculate_targets call of the run
TargetsStep == pc = "level" /\ pc' # "level" /\ nrows' = nrows

\* C23: in GAR 8-001 calculate_targets and calculate_ranks complete without
\* an exception and leave a numeric target in every cell of both
\* hierarchies, whatever the classification pass produced, a cell whose
\* records carry no override target included
C23_TargetsComplete ==
    [][(gar = "u-8-001" /\ TargetsStep) =>
        /\ pc' = "done"
        /\ \A p \in DOMAIN dict_cell_area' : dict_cell_area'[p].target # NoneNum
        /\ \A o \in DOMAIN dict_total_area' :
            \A p \in DOMAIN dict_total_area'[o].pcell :
                dict_total_area'[o].pcell[p].target # NoneNum]_vars


---------------------------------------------------------------------------
(* C24: the order of the phases of calculate_values. *)

\* the regulations whose calculate_targets calls calculate_ranks
RankedGars == {"u-8-001", "u-8-006", "section-7"}

\* the targets and ranks held by a CellArea
Outcome(cell) ==
    [target |-> cell.target,
     levels |-> {<<l, cell.level[l].target, cell.level[l].rank>> :
                    l \in DOMAIN cell.level},
     becs |-> UNION {{<<l, cell.level[l].bec[i].key, cell.level[l].bec[i].rank>> :
                        i \in 1..Len(cell.level[l].bec)} : l \in DOMAIN cell.level}]

\* every target and rank of CellArea a is still that of CellArea b
KeepsOutcome(a, b) ==
    /\ Outcome(a).target = Outcome(b).target
    /\ Outcome(a).levels \subseteq Outcome(b).levels
    /\ Outcome(a).becs \subseteq Outcome(b).becs

\* the step writes a rank field of a polygon of the resultant
WritesPolygonRank ==
    \/ pc' = "updated" /\ pc # "updated"
    \/ \E k \in 1..Len(resultant) :
        \/ resultant'[k].rank_oa # resultant[k].rank_oa
        \/ resultant'[k].rank_cell # resultant[k].rank_cell

\* C24: once calculate_targets has started no calculate_level call follows;
\* calculate_targets, and calculate_ranks where the regulation has ranks,
\* are not run a second time (no target or rank changes afterwards, and
\* ranks exist exactly for the regulations that rank); and the ranks are
\* copied to the polygons only after calculate_ranks has finished
C24_PhasesInOrder ==
    [][/\ (pc # "level" => (nrows' = nrows /\ row' = row))
       /\ (pc # "level" =>
            /\ ranks' = ranks
            /\ \A id \in CellIds(dict_total_area, dict_cell_area) :
                KeepsOutcome(CellAt(dict_total_area, dict_cell_area, id),
                             CellAt(dict_total_area', dict_cell_area', id)))
       /\ (TargetsStep => (pc' = "done" => (ranks' <=> gar \in RankedGars)))
       /\ (WritesPolygonRank => (pc = "done" /\ ranks /\ pc' = "updated"))]_vars

\* ranks reached a polygon: the copy is done and a polygon holds NH or CH
C24_Witness ==
    /\ pc = "updated"
    /\ nrows = MaxRows
    /\ \E k \in 1..Len(resultant) : resultant[k].rank_cell \in {str_nh, str_ch}


---------------------------------------------------------------------------
(* C25: GAR 8-006, stands reset to age 0 and other young stands. *)

\* record r is a young stand of GAR 8-006: age 0 in an IDF or ICH zone, or
\* an age below 35 in an MS or ESSF zone
Young8006(r) ==
    LET bec == RemoveSpaces(r.bec)
    IN  \/ StartsWithAny(bec, {<<"I","D","F">>, <<"I","C","H">>}) /\ r.age = 0
        \/ /\ StartsWithAny(bec, {<<"M","S">>, <<"E","S","S","F">>})
           /\ r.age # NoneNum /\ r.age < 35

\* C25: in GAR 8-006 every gross-forested record of age 0 in an IDF or ICH
\* zone, and every one of age below 35 in an MS or ESSF zone, is classified
\* 'Immature' whatever its height and crown closure, null or zero included
C25_ResetStandIsImmature ==
    (/\ gar = "u-8-006"
     /\ Called
     /\ row.stand.gfa = "Y"
     /\ Young8006(row.stand)) => row.level = str_imm_8006


---------------------------------------------------------------------------
(* The stand-alone pipeline, gar_analysis_sa.py: fix_slivers.  A feature
   class is its name in fc; its content records which step wrote it and how
   many polygons under 1 m2 it holds. *)

\* most slivers in the identity output
MaxSlivers == 8

\* max_passes, line 1382
max_passes == 8

\* float('inf'), line 1380
Inf == MaxSlivers + 1

\* a feature class that does not exist
Absent == [exists |-> FALSE]

\* the writer of a feature class: the k-th eliminate_small_polygons call
\* (0 for the first pass, k for loop pass k), or a named step
Pass(k) == <<"pass", k>>
Step(name) == <<name, 0>>

\* a feature class written by `by` holding n slivers
Features(by, n) == [exists |-> TRUE, by |-> by, slivers |-> n, empty |-> FALSE]

\* a feature class without features
Empty(by) == [exists |-> TRUE, by |-> by, slivers |-> 0, empty |-> TRUE]

\* a scratch feature class left by an earlier run whose cleanup failed
Stale == Features(Step("stale"), 0)

\* arcpy.CopyFeatures_management(src, dst) in workspace f
CopyFeatures(f, src, dst) == [f EXCEPT ![dst] = f[src]]

\* arcpy.Delete_management of the names in S
Delete(f, S) == [n \in DOMAIN f |-> IF n \in S THEN Absent ELSE f[n]]

\* the cleanup of the finally clause, lines 1418-1430
Cleanup(f) == Delete(f, {"out_a", "out_b", "single"})

\* eliminate_small_polygons, lines 1432-1496: what call k can leave in its
\* output for the input src: a copy when src holds no sliver, otherwise the
\* result of Eliminate, or src unchanged when Eliminate failed
Eliminated(k, src) ==
    {[src EXCEPT !.by = Pass(k), !.slivers = m] : m \in 0..src.slivers}

\* the GAR analysis is not running
GarIdle ==
    /\ gar = "u-8-001"
    /\ dict_total_area = <<>>
    /\ dict_cell_area = <<>>
    /\ dict_zero_target = <<>>
    /\ lst_cells = <<>>
    /\ ranks = FALSE
    /\ row = NoRow
    /\ nrows = 0
    /\ pc = "idle"
    /\ resultant = <<>>

gar_vars == <<gar, dict_total_area, dict_cell_area, dict_zero_target,
              lst_cells, ranks, row, nrows, pc, resultant>>

\* the workspace when fix_slivers is called: the cells, the erased cells
\* and the identity output may each be there or not, the identity output may
\* be empty, and the scratch names may be left over
SliverInit ==
    /\ GarIdle
    /\ \E cells \in {Absent, Features(Step("cells"), 0)},
          erase \in {Absent, Features(Step("erase"), 0)},
          identity \in {Absent, Empty(Step("identity"))}
                        \cup {Features(Step("identity"), n) : n \in 0..MaxSlivers},
          a \in {Absent, Stale}, b \in {Absent, Stale} :
        fc = [cells |-> cells, erase |-> erase, identity |-> identity,
              single |-> Absent, out_a |-> a, out_b |-> b,
              resultant |-> Absent]
    /\ passes = 0
    /\ prev_selection = Inf
    /\ current_selection = 0
    /\ id_layers = <<>>
    /\ work_in = ""
    /\ layer = 0
    /\ attempt = <<>>
    /\ sa_pc = "fix_slivers"

\* fix_slivers up to the loop, lines 1325-1382: the guards, the conversion
\* to single part and the first eliminate_small_polygons pass into out_a.  A
\* copy from a feature class that does not exist raises; the handler of
\* lines 1412-1417 then copies the identity output, and a failure of that
\* copy is passed over.  With an empty identity output the failure of the
\* copy of the erased cells is passed over at line 1341 and the method goes
\* on
FixSliversStart ==
    /\ sa_pc = "fix_slivers"
    /\ IF ~fc.identity.exists
       THEN /\ fc' = Cleanup(IF fc.erase.exists
                             THEN CopyFeatures(fc, "erase", "resultant")
                             ELSE IF fc.cells.exists
                             THEN CopyFeatures(fc, "cells", "resultant")
                             ELSE fc)
            /\ sa_pc' = "returned"
            /\ UNCHANGED current_selection
       ELSE IF fc.identity.empty /\ fc.erase.exists
       THEN /\ fc' = Cleanup(CopyFeatures(fc, "erase", "resultant"))
            /\ sa_pc' = "returned"
            /\ UNCHANGED current_selection
       ELSE /\ \E out \in Eliminated(0, fc.identity) :
                fc' = [fc EXCEPT !.single = [fc.identity EXCEPT !.by = Step("single")],
                                 !.out_a = out]
            /\ current_selection' = fc.identity.slivers
            /\ sa_pc' = "loop"
    /\ UNCHANGED <<passes, prev_selection, id_layers, work_in, layer, attempt,
                   gar_vars>>

\* the condition of the while loop, line 1385
Looping ==
    prev_selection > current_selection /\ current_selection > 0
        /\ passes < max_passes

\* one pass of the loop, lines 1385-1396
FixSliversPass ==
    /\ sa_pc = "loop"
    /\ Looping
    /\ LET input_fc == IF passes % 2 = 0 THEN "out_a" ELSE "out_b"
           output_fc == IF passes % 2 = 0 THEN "out_b" ELSE "out_a"
       IN  /\ prev_selection' = current_selection
           /\ passes' = passes + 1
           /\ current_selection' = fc[input_fc].slivers
           /\ \E out \in Eliminated(passes + 1, fc[input_fc]) :
                fc' = [fc EXCEPT ![output_fc] = out]
    /\ UNCHANGED <<id_layers, work_in, layer, attempt, sa_pc, gar_vars>>

\* the feature class line 1399 takes for the latest output
FinalFc == IF passes % 2 = 1 THEN "out_a" ELSE "out_b"

\* after the loop, lines 1398-1430: the final feature class is copied to
\* the resultant; when it does not exist the exception handler copies the
\* identity output; the scratch feature classes are deleted
FixSliversFinish ==
    /\ sa_pc = "loop"
    /\ ~Looping
    /\ fc' = Cleanup(IF fc[FinalFc].exists
                     THEN CopyFeatures(fc, FinalFc, "resultant")
                     ELSE CopyFeatures(fc, "identity", "resultant"))
    /\ sa_pc' = "returned"
    /\ UNCHANGED <<passes, prev_selection, current_selection, id_layers,
                   work_in, layer, attempt, gar_vars>>

SliverNext ==
    \/ FixSliversStart
    \/ FixSliversPass
    \/ FixSliversFinish

SliverSpec == SliverInit /\ [][SliverNext]_vars

---------------------------------------------------------------------------
(* C26: the feature class fix_slivers copies to the resultant. *)

\* C26: the feature class copied to the resultant is the one written by the
\* most recent eliminate_small_polygons pass, for every number of loop
\* passes from 0 to max_passes
C26_LatestPassCopied ==
    [][(sa_pc = "loop" /\ sa_pc' = "returned") =>
        (fc'.resultant.exists /\ fc'.resultant.by = Pass(passes))]_vars


---------------------------------------------------------------------------
(* The stand-alone pipeline, gar_analysis_sa.py: identity_gar.  The content
   of a feature class records the feature class it started from and the
   identity layers overlaid on it, in order. *)

\* most identity layers that exist and have features
MaxLayers == 3

\* attempts, line 1243
attempts == <<"direct", "dice", "subdivide+dice">>

\* a feature class started from `base` with the layers ls overlaid
Overlaid(base, ls, empty) ==
    [exists |-> TRUE, base |-> base, layers |-> ls, empty |-> empty]

\* arcpy.Identity_analysis of the feature class src with layer l
Identity(src, l) == [src EXCEPT !.layers = Append(src.layers, l)]

\* the increasing sequence of the members of S
RECURSIVE Ascending(_)
Ascending(S) ==
    IF S = {} THEN <<>>
    ELSE LET m == CHOOSE x \in S : \A y \in S : x <= y
         IN  <<m>> \o Ascending(S \ {m})

\* the cleanup of the finally clause, lines 1308-1316
CleanupIdentity(f) == Delete(f, {"id_input"})

\* the workspace when identity_gar is called: the cells and the erased
\* cells may each be there or not, the erased cells may be empty, and
\* id_layers is what the filter of lines 1211-1221 keeps of identity_fcs
IdentityInit ==
    /\ GarIdle
    /\ \E cells \in {Absent, Overlaid("cells", <<>>, FALSE)},
          erase \in {Absent, Overlaid("erase", <<>>, FALSE),
                     Overlaid("erase", <<>>, TRUE)} :
        fc = [cells |-> cells, erase |-> erase, identity |-> Absent,
              id_input |-> Absent]
    /\ \E S \in SUBSET (1..MaxLayers) : id_layers = Ascending(S)
    /\ passes = 0
    /\ prev_selection = 0
    /\ current_selection = 0
    /\ work_in = ""
    /\ layer = 0
    /\ attempt = <<>>
    /\ sa_pc = "identity_gar"

\* identity_gar up to the loop over the layers, lines 1197-1236.  A copy
\* from a feature class that does not exist raises: at line 1201 the
\* handler of lines 1302-1307 then copies the erased cells, and a failure of
\* that copy is passed over; at line 1206 the failure is passed over at line
\* 1208 and the method goes on
IdentityGarStart ==
    /\ sa_pc = "identity_gar"
    /\ IF ~fc.erase.exists
       THEN /\ fc' = CleanupIdentity(IF fc.cells.exists
                                     THEN CopyFeatures(fc, "cells", "identity")
                                     ELSE fc)
            /\ sa_pc' = "returned"
            /\ UNCHANGED <<work_in, layer>>
       ELSE IF fc.erase.empty /\ fc.cells.exists
       THEN /\ fc' = CleanupIdentity(CopyFeatures(fc, "cells", "identity"))
            /\ sa_pc' = "returned"
            /\ UNCHANGED <<work_in, layer>>
       ELSE IF id_layers = <<>>
       THEN /\ fc' = CleanupIdentity(CopyFeatures(fc, "erase", "identity"))
            /\ sa_pc' = "returned"
            /\ UNCHANGED <<work_in, layer>>
       ELSE /\ work_in' = "erase"
            /\ layer' = 1
            /\ sa_pc' = "layers"
            /\ UNCHANGED fc
    /\ UNCHANGED <<passes, prev_selection, current_selection, id_layers,
                   attempt, gar_vars>>

\* the loop over the attempts has left the current layer: an attempt
\* succeeded (break, line 1282) or all three were made
AttemptsOver ==
    attempt # <<>> /\ (attempt[Len(attempt)].ok \/ Len(attempt) = Len(attempts))

\* the same without the break of line 1282: the attempts go on after a
\* success
IdentityAttemptNoBreak ==
    /\ sa_pc = "layers"
    /\ layer <= Len(id_layers)
    /\ Len(attempt) < Len(attempts)
    /\ \E ok \in BOOLEAN :
        /\ attempt' = Append(attempt, [name |-> attempts[Len(attempt) + 1],
                                       ok |-> ok])
        /\ IF ok
           THEN /\ fc' = [fc EXCEPT !.id_input =
                                Identity(fc[work_in], id_layers[layer])]
                /\ work_in' = "id_input"
           ELSE UNCHANGED <<fc, work_in>>
    /\ UNCHANGED <<passes, prev_selection, current_selection, id_layers, layer,
                   sa_pc, gar_vars>>

\* one attempt on the current layer, lines 1246-1285: `attempt` holds the
\* attempts made on the layer so far with their outcome.  Dice, subdivide or
\* Identity may raise; a success promotes the output to the next input
IdentityAttempt ==
    /\ sa_pc = "layers"
    /\ layer <= Len(id_layers)
    /\ ~AttemptsOver
    /\ \E ok \in BOOLEAN :
        /\ attempt' = Append(attempt, [name |-> attempts[Len(attempt) + 1],
                                       ok |-> ok])
        /\ IF ok
           THEN /\ fc' = [fc EXCEPT !.id_input =
                                Identity(fc[work_in], id_layers[layer])]
                /\ work_in' = "id_input"
           ELSE UNCHANGED <<fc, work_in>>
    /\ UNCHANGED <<passes, prev_selection, current_selection, id_layers, layer,
                   sa_pc, gar_vars>>

\* the end of the body of the loop over the layers, lines 1287-1297: a layer
\* whose attempts all failed is logged and work_in is kept
IdentityNextLayer ==
    /\ sa_pc = "layers"
    /\ layer <= Len(id_layers)
    /\ AttemptsOver
    /\ layer' = layer + 1
    /\ attempt' = <<>>
    /\ UNCHANGED <<fc, passes, prev_selection, current_selection, id_layers,
                   work_in, sa_pc, gar_vars>>

\* after the loop, lines 1299-1316: work_in is copied to the identity
\* output and the scratch feature classes are deleted
IdentityFinish ==
    /\ sa_pc = "layers"
    /\ layer > Len(id_layers)
    /\ fc' = CleanupIdentity(CopyFeatures(fc, work_in, "identity"))
    /\ sa_pc' = "returned"
    /\ UNCHANGED <<passes, prev_selection, current_selection, id_layers,
                   work_in, layer, attempt, gar_vars>>

IdentityNext ==
    \/ IdentityGarStart
    \/ IdentityAttempt
    \/ IdentityNextLayer
    \/ IdentityFinish

IdentitySpec == IdentityInit /\ [][IdentityNext]_vars

---------------------------------------------------------------------------
(* C27: the attempts of identity_gar and its output. *)

\* the attempts on a layer are made in the order of `attempts`, each after
\* the failure of the one before
AttemptsInOrder ==
    (sa_pc = "layers" /\ attempt' # attempt /\ attempt' # <<>>) =>
        \A i \in 1..Len(attempt') :
            /\ attempt'[i].name = attempts[i]
            /\ i < Len(attempt') => ~attempt'[i].ok

\* a successful attempt overlays the layer on the last successful result,
\* a failed one leaves it as it was, and a layer is left with that result:
\* with the layer overlaid when an attempt succeeded, unchanged when all failed
SkippedOrApplied ==
    /\ (sa_pc = "layers" /\ attempt' # attempt /\ attempt' # <<>>) =>
        IF attempt'[Len(attempt')].ok
        THEN fc'[work_in'] = Identity(fc[work_in], id_layers[layer])
        ELSE work_in' = work_in /\ fc'[work_in'] = fc[work_in]
    /\ (sa_pc = "layers" /\ layer' = layer + 1) =>
        /\ work_in' = work_in /\ fc'[work_in'] = fc[work_in]
        /\ sa_pc' = "layers"
        /\ ~attempt[Len(attempt)].ok => Len(attempt) = Len(attempts)
    /\ (sa_pc = "layers" /\ sa_pc' = "returned") =>
        /\ layer > Len(id_layers)
        /\ fc'.identity = fc[work_in]

---------------------------------------------------------------------------
(* C28 *)

\* the balance write_cells shows for a cell: gar_8001.py lines 448-454,
\* gar_8006.py lines 285-290
Balance(cell) ==
    LET first == IF gar = "u-8-001"
                 THEN cell.sic_hectares
                 ELSE LevelOf(cell, str_mature).hectares
    IN  first + cell.nh_hectares + cell.ch_hectares - cell.target

---------------------------------------------------------------------------
(* C29: seniority and age in GAR 8-001. *)

\* the position of a level in the priority list of GAR 8-001, 0 for a
\* level outside it (None, Immature)
RECURSIVE PositionFrom(_, _)
PositionFrom(level, k) ==
    IF k > Len(lst_level_8001) THEN 0
    ELSE IF lst_level_8001[k] = level THEN k
    ELSE PositionFrom(level, k + 1)

Seniority(level) == PositionFrom(level, 1)

\* the ages compared with the age of a record
OlderAges(age) == {a \in KeyAges \cup 0..MaxAge : a # NoneNum /\ a > age}

\* the level of record r had its age been a
LevelAtAge(r, a) == Level8001([r EXCEPT !.age = a])

\* C29: in GAR 8-001, of two records that differ in age only, both at or
\* above the youth threshold of 20, the older one is never unclassified or
\* in a less senior category of the priority list while the younger one is
\* in a more senior one.
C29_SeniorityMonotoneInAge ==
    (/\ gar = "u-8-001"
     /\ Called
     /\ row.stand.age # NoneNum
     /\ row.stand.age >= 20
     /\ Seniority(row.level) > 0) =>
        \A a \in OlderAges(row.stand.age) :
            LET older == LevelAtAge(row.stand, a)
            IN  ~Raised(older) =>
                    /\ Seniority(older) > 0
                    /\ Seniority(older) <= Seniority(row.level)


---------------------------------------------------------------------------
(* C30: the ranks of the polygons of the 'section-7' analysis. *)

\* the ranked categories of GAR 8-006
Ranked8006 == {lst_level_8006[k] : k \in 1..Len(lst_level_8006)}

\* polygon p holds the ranks calculate_cell_ranks gave to its category in
\* its cell of the operating-area hierarchy and of the cell-alone hierarchy
HoldsLevelRanks(p) ==
    /\ p.rank_oa = LevelOf(dict_total_area[p.op_area].pcell[p.pcell], p.level).rank
    /\ p.rank_cell = LevelOf(dict_cell_area[p.pcell], p.level).rank

\* C30: in the 'section-7' analysis, after ranking, every polygon of a
\* ranked category holds in OP_AREA_RANK and CELL_RANK the ranks that
\* calculate_cell_ranks assigned to its (operating area, cell, category)
\* and (cell, category) buckets, as in 'u-8-006'.
C30_Section7PolygonsRanked ==
    (gar = "section-7" /\ pc = "updated") =>
        \A k \in 1..Len(resultant) :
            resultant[k].level \in Ranked8006 => HoldsLevelRanks(resultant[k])

=============================================================================
